---- MODULE Spec2Model ----
(***************************************************************************)
(* Document generation service: the generation pipeline                    *)
(* (DocumentPipeline::process), the Document Record Store (DocumentDb)     *)
(* and the Artifact Store Client (DocumentStorage).                        *)
(***************************************************************************)
EXTENDS Integers, Sequences, FiniteSets, TLC

(***************************************************************************)
(* Bounds of the model                                                     *)
(***************************************************************************)
\* longest requested_formats list of a request
MaxFormats == 2
\* longest rendered file, in bytes
MaxBytes == 1
\* how many update_document_status calls the store-level specification makes
MaxUpdates == 3
\* how many rows the store-level specification inserts
MaxDocuments == 2
\* how many receive cycles the consumption loop starts
MaxCycles == 2
\* how many units of work call the Document Record Store on pooled connections
MaxUnits == 2
\* how many calls of one function a function-level specification makes in a row
MaxCalls == 2
\* longest title of a request in the function-level specifications
MaxTitleLen == 3
\* how many rows storage.document_templates holds in the function-level specification
MaxTemplates == 3
\* longest list of paths handed to delete_objects
MaxPaths == 2

(***************************************************************************)
(* Option<T>: None is the empty tuple, Some(v) the one-element tuple       *)
(***************************************************************************)
None == <<>>
Some(v) == <<v>>

\* SQL COALESCE(new, old) of persistence.rs:196-199
COALESCE(new, old) == IF new # None THEN new ELSE old

RECURSIVE SumSeq(_)
SumSeq(s) == IF s = <<>> THEN 0 ELSE Head(s) + SumSeq(Tail(s))

(***************************************************************************)
(* Values                                                                  *)
(***************************************************************************)
\* the callers of process
Workers == {"w1"}

\* the callers of process when two calls run concurrently
ConcurrentWorkers == {"w1", "w2"}
Tenants == {"T1"}
FormatTags == {"pdf", "html", "markdown", "docx"}
DocumentTypes == {"srs", "sdd"}
Statuses == {"queued", "processing", "rendering", "uploading", "completed", "failed"}
TerminalStatuses == {"completed", "failed"}
ByteValues == {7}

\* every byte string a renderer may produce
RenderOutputs == UNION {[1..n -> ByteValues] : n \in 0..MaxBytes}

\* every requested_formats list of a request
FormatLists == UNION {[1..n -> FormatTags] : n \in 0..MaxFormats}

\* storage.document_templates as the pipeline reads it (read-only)
Templates ==
    { [id |-> 1, tenant_id |-> "T1", template_type |-> "srs", format |-> "pdf",
       is_system |-> TRUE, is_active |-> TRUE, updated_at |-> 1,
       template_content |-> "tpl1"],
      [id |-> 2, tenant_id |-> "T1", template_type |-> "srs", format |-> "pdf",
       is_system |-> FALSE, is_active |-> FALSE, updated_at |-> 2,
       template_content |-> "tpl2"],
      [id |-> 3, tenant_id |-> "T1", template_type |-> "sdd", format |-> "html",
       is_system |-> FALSE, is_active |-> TRUE, updated_at |-> 3,
       template_content |-> "tpl3"] }

\* template ids a request may carry: 4 names no row
TemplateIds == {1, 2, 4}

\* titles of requests, as character sequences
Titles == {<<"A", " ", "1">>}

\* the messages the subscription delivers
Messages == {"m1", "m2"}

\* the connections of the PgPool, and the units of work that acquire them
Conns == {"c1", "c2"}
Units == 1..MaxUnits

\* the tenants whose rows the store holds
StoreTenants == {"T1", "T2"}

\* the inbound requests
Requests ==
    [tenant_id : Tenants, project_id : {7}, template_id : {None} \cup {Some(t) : t \in TemplateIds},
     title : Titles, document_type : DocumentTypes, requested_formats : FormatLists]

(***************************************************************************)
(* State                                                                   *)
(***************************************************************************)
VARIABLES
    documents,      \* storage.generated_documents: row i has id i
    artifacts,      \* storage.generated_document_artifacts: row i has id i
    objects,        \* the bucket: object path -> bytes, as a set of [path, data]
    clock,          \* Utc::now()
    statusLog,      \* per job id, the status values written to its record, in order
    uploadLog,      \* job ids of the objects uploaded, in order
    pc,             \* per worker, its position in process
    req,            \* per worker, the request of its process call
    doc_id,         \* per worker, doc.id
    template_content, \* per worker, the content of the resolved template
    rendered_files, \* per worker, the files render_all_formats returned
    upload_results, \* per worker, the results upload_all_artifacts has so far
    inserted,       \* per worker, how many artifact rows its loop has inserted
    err_msg,        \* per worker, the message of the render or upload failure
    failure,        \* per worker, the failure its process call met
    ops,            \* per worker, the calls its process call made, each with its result
    ret,            \* per worker, what process returned
    cancelled,      \* cancel.is_cancelled() of the loop's CancellationToken
    signalTask,     \* the spawned task awaiting signal::ctrl_c()
    loopPc,         \* position of process_messages in its loop
    cycles,         \* how many times the loop has called subscription.receive
    recvErrs,       \* how many of those calls returned Err
    slept,          \* seconds the loop has spent in tokio::time::sleep
    deliveries,     \* per delivered message, the progress of its callback
    inFlightAtCancel, \* the messages whose callback was running when the token was cancelled
    conns,          \* the pool: per connection, its settings and whether it is checked out
    units,          \* per unit of work, the store operation it runs and how far it is
    deleted,        \* ids of the rows DELETE has removed
    trace           \* the calls made of a function checked by itself: inputs and result

vars == <<documents, artifacts, objects, clock, statusLog, uploadLog, pc, req, doc_id,
          template_content, rendered_files, upload_results, inserted, err_msg, failure, ops,
          ret, cancelled, signalTask, loopPc, cycles, recvErrs, slept, deliveries,
          inFlightAtCancel, conns, units, deleted, trace>>

\* the state of process_messages and of the callbacks subscription.receive runs
loopVars == <<cancelled, signalTask, loopPc, cycles, recvErrs, slept, deliveries,
              inFlightAtCancel>>

\* the state of the connection pool and of the store operations run on it
tenantVars == <<conns, units, deleted>>

(***************************************************************************)
(* Document Record Store (persistence.rs)                                  *)
(***************************************************************************)
\* the row INSERT ... VALUES (..., 'queued', ...) RETURNING * gives
CreateDocumentRow(input, id) ==
    [id |-> id, tenant_id |-> input.tenant_id, project_id |-> input.project_id,
     template_id |-> input.template_id, title |-> input.title,
     document_type |-> input.document_type, status |-> "queued",
     requested_formats |-> input.requested_formats, generation_metadata |-> None,
     error_message |-> None, started_at |-> None, completed_at |-> None]

\* UpdateDocumentStatus with completed_at bound only for 'completed'
UpdateDocumentStatus_CompletedOnly(row, status, error_message, generation_metadata, now) ==
    LET started_at == IF status = "processing" THEN Some(now) ELSE None
        completed_at == IF status = "completed" THEN Some(now) ELSE None
    IN  [row EXCEPT !.status = status,
                    !.error_message = COALESCE(error_message, @),
                    !.generation_metadata = COALESCE(generation_metadata, @),
                    !.started_at = COALESCE(started_at, @),
                    !.completed_at = COALESCE(completed_at, @)]

\* UpdateDocumentStatus with the error_message column left out of the SET list
UpdateDocumentStatus_ErrorDropped(row, status, error_message, generation_metadata, now) ==
    LET started_at == IF status = "processing" THEN Some(now) ELSE None
        completed_at == IF status = "completed" \/ status = "failed" THEN Some(now) ELSE None
    IN  [row EXCEPT !.status = status,
                    !.generation_metadata = COALESCE(generation_metadata, @),
                    !.started_at = COALESCE(started_at, @),
                    !.completed_at = COALESCE(completed_at, @)]

\* UpdateDocumentStatus with error_message = $2 and generation_metadata = $3, no COALESCE
UpdateDocumentStatus_Clobber(row, status, error_message, generation_metadata, now) ==
    LET started_at == IF status = "processing" THEN Some(now) ELSE None
        completed_at == IF status = "completed" \/ status = "failed" THEN Some(now) ELSE None
    IN  [row EXCEPT !.status = status,
                    !.error_message = error_message,
                    !.generation_metadata = generation_metadata,
                    !.started_at = COALESCE(started_at, @),
                    !.completed_at = COALESCE(completed_at, @)]

\* the row UPDATE ... SET ... WHERE id = $6 RETURNING * gives for the row it matches
UpdateDocumentStatus(row, status, error_message, generation_metadata, now) ==
    LET started_at == IF status = "processing" THEN Some(now) ELSE None
        completed_at == IF status = "completed" \/ status = "failed" THEN Some(now) ELSE None
    IN  [row EXCEPT !.status = status,
                    !.error_message = COALESCE(error_message, @),
                    !.generation_metadata = COALESCE(generation_metadata, @),
                    !.started_at = COALESCE(started_at, @),
                    !.completed_at = COALESCE(completed_at, @)]

\* the row INSERT INTO generated_document_artifacts ... RETURNING * gives
CreateArtifactRow(input, id) ==
    [id |-> id, tenant_id |-> input.tenant_id, document_id |-> input.document_id,
     format |-> input.format, file_name |-> input.file_name, gcs_path |-> input.gcs_path,
     file_size |-> input.file_size, content_type |-> input.content_type,
     sha256_checksum |-> input.sha256_checksum, page_count |-> input.page_count]

\* DeleteArtifactsForDocument issuing SELECT gcs_path where it issues DELETE ...
\* RETURNING gcs_path: the paths are returned and the rows stay
DeleteArtifactsForDocument_SelectOnly(rows, document_id) ==
    LET mine == SelectSeq(rows, LAMBDA a : a.document_id = document_id)
    IN  [rows |-> rows, paths |-> [i \in 1..Len(mine) |-> mine[i].gcs_path]]

\* DELETE FROM generated_document_artifacts WHERE document_id = $1 RETURNING gcs_path:
\* the rows left and the paths returned
DeleteArtifactsForDocument(rows, document_id) ==
    LET mine == SelectSeq(rows, LAMBDA a : a.document_id = document_id)
    IN  [rows |-> SelectSeq(rows, LAMBDA a : a.document_id # document_id),
         paths |-> [i \in 1..Len(mine) |-> mine[i].gcs_path]]

\* SELECT * FROM document_templates WHERE id = $1 AND is_active = true
GetTemplate(tenant_id, template_id) ==
    LET rows == {t \in Templates : t.id = template_id /\ t.is_active}
    IN  IF rows = {} THEN None ELSE Some(CHOOSE t \in rows : TRUE)

\* TemplateBefore under ORDER BY updated_at DESC alone
TemplateBefore_RecentOnly(a, b) == a.updated_at > b.updated_at

\* a sorts before b under ORDER BY is_system ASC, updated_at DESC
TemplateBefore(a, b) ==
    \/ ~a.is_system /\ b.is_system
    \/ a.is_system = b.is_system /\ a.updated_at > b.updated_at

\* SELECT ... WHERE template_type = $1 AND format = $2 AND is_active = true
\* ORDER BY is_system ASC, updated_at DESC LIMIT 1
GetTemplateByType(tenant_id, template_type, format) ==
    LET rows == {t \in Templates :
                    t.template_type = template_type /\ t.format = format /\ t.is_active}
    IN  IF rows = {} THEN None
        ELSE Some(CHOOSE t \in rows : \A u \in rows \ {t} : ~TemplateBefore(u, t))

\* the same query on any table: every row LIMIT 1 may return, rows that tie under the
\* ORDER BY being returned in an order the query does not fix
GetTemplateByTypeResults(table, template_type, format) ==
    LET rows == {t \in table :
                    t.template_type = template_type /\ t.format = format /\ t.is_active}
    IN  IF rows = {} THEN {None}
        ELSE {Some(t) : t \in {r \in rows : \A u \in rows \ {r} : ~TemplateBefore(u, r)}}

(***************************************************************************)
(* Artifact Store Client (gcs.rs)                                          *)
(***************************************************************************)
\* bytes of a SHA-256 digest
DigestBytes == 32

HexDigits == <<"0", "1", "2", "3", "4", "5", "6", "7", "8", "9", "a", "b", "c", "d", "e", "f">>

\* Sha256::new().update(data).finalize(): a digest of DigestBytes bytes that depends on
\* every byte of data and on its length (a stand-in for the compression function)
Sha256(data) ==
    [i \in 1..DigestBytes |->
        (SumSeq([j \in 1..Len(data) |-> data[j] * (i + j)]) + 31 * Len(data) + 17 * i) % 256]

\* hex::encode: two lower-case hex digits per byte, high nibble first
HexEncode(bytes) ==
    [k \in 1..(2 * Len(bytes)) |->
        LET b == bytes[(k + 1) \div 2]
        IN  HexDigits[(IF k % 2 = 1 THEN b \div 16 ELSE b % 16) + 1]]

\* format!("{}/documents/{}/{}/{}", tenant_id, project_id, document_id, file_name)
ObjectPath(tenant_id, project_id, document_id, file_name) ==
    <<tenant_id, "documents", project_id, document_id, file_name>>

\* UploadArtifact with hasher.update(&file.data) left out: the digest of no input
UploadArtifact_HasherNotFed(tenant_id, project_id, document_id, file) ==
    [gcs_path |-> ObjectPath(tenant_id, project_id, document_id, file.file_name),
     file_size |-> Len(file.data),
     sha256_checksum |-> HexEncode(Sha256(<<>>)),
     format |-> file.format, content_type |-> file.content_type,
     file_name |-> file.file_name, page_count |-> file.page_count]

\* the UploadResult of an upload_artifact call whose upload_object succeeded
UploadArtifact(tenant_id, project_id, document_id, file) ==
    [gcs_path |-> ObjectPath(tenant_id, project_id, document_id, file.file_name),
     file_size |-> Len(file.data),
     sha256_checksum |-> HexEncode(Sha256(file.data)),
     format |-> file.format, content_type |-> file.content_type,
     file_name |-> file.file_name, page_count |-> file.page_count]

\* the bucket after upload_object wrote data at path
PutObject(bucket, path, data) ==
    {o \in bucket : o.path # path} \cup {[path |-> path, data |-> data]}

\* the bucket after the client deleted the object at gcs_path (gcs.rs:182-189)
DeleteObject(bucket, gcs_path) == {o \in bucket : o.path # gcs_path}

\* DeleteLoop with the error of delete_object propagated by ?: the loop ends at the
\* first failed deletion
RECURSIVE DeleteLoop_StopAtFailure(_, _, _, _)
DeleteLoop_StopAtFailure(gcs_paths, fails, i, st) ==
    IF i > Len(gcs_paths) THEN [st EXCEPT !.ok = TRUE]
    ELSE LET path == gcs_paths[i]
             attempted == Append(st.attempted, path)
         IN  IF fails[i] \/ path \notin {o.path : o \in st.bucket}
             THEN [st EXCEPT !.attempted = attempted, !.ok = FALSE]
             ELSE DeleteLoop_StopAtFailure(gcs_paths, fails, i + 1,
                    [st EXCEPT !.attempted = attempted,
                               !.bucket = DeleteObject(st.bucket, path)])

\* the loop of delete_objects (gcs.rs:197-202) from path i on: attempted are the paths
\* handed to delete_object so far, warned the ones whose deletion failed; fails[i]
\* says that the service refuses deletion i, and deleting an absent object fails too
RECURSIVE DeleteLoop(_, _, _, _)
DeleteLoop(gcs_paths, fails, i, st) ==
    IF i > Len(gcs_paths) THEN [st EXCEPT !.ok = TRUE]
    ELSE LET path == gcs_paths[i]
             attempted == Append(st.attempted, path)
         IN  IF fails[i] \/ path \notin {o.path : o \in st.bucket}
             THEN DeleteLoop(gcs_paths, fails, i + 1,
                    [st EXCEPT !.attempted = attempted, !.warned = Append(st.warned, path)])
             ELSE DeleteLoop(gcs_paths, fails, i + 1,
                    [st EXCEPT !.attempted = attempted,
                               !.bucket = DeleteObject(st.bucket, path)])

\* DocumentStorage::delete_objects (gcs.rs:196-203)
DeleteObjects(bucket, gcs_paths, fails) ==
    DeleteLoop(gcs_paths, fails, 1,
               [ok |-> FALSE, attempted |-> <<>>, warned |-> <<>>, bucket |-> bucket])

(***************************************************************************)
(* render_all_formats (pipeline.rs)                                        *)
(***************************************************************************)
SupportedFormats == {"pdf", "html", "markdown"}

ContentTypeOf(fmt) ==
    CASE fmt = "pdf" -> "application/pdf"
      [] fmt = "html" -> "text/html; charset=utf-8"
      [] fmt = "markdown" -> "text/markdown; charset=utf-8"

ExtensionOf(fmt) ==
    CASE fmt = "pdf" -> "pdf"
      [] fmt = "html" -> "html"
      [] fmt = "markdown" -> "md"

Alphanumerics == {"A", "b", "1"}

\* SanitizeTitle replacing white space only
SanitizeTitle_SpacesOnly(title) ==
    [i \in 1..Len(title) |-> IF title[i] = " " THEN "_" ELSE title[i]]

\* title.chars().map(|c| if c.is_alphanumeric() || c == '-' || c == '_' { c } else { '_' })
SanitizeTitle(title) ==
    [i \in 1..Len(title) |->
        IF title[i] \in Alphanumerics \/ title[i] = "-" \/ title[i] = "_"
        THEN title[i] ELSE "_"]

\* what the renderer may answer for one format: bytes, or an error
RenderResults ==
    {[ok |-> FALSE, data |-> <<>>]} \cup {[ok |-> TRUE, data |-> d] : d \in RenderOutputs}

\* RenderLoop with a tag outside the closed set skipped rather than refused
RECURSIVE RenderLoop_SkipUnsupported(_, _, _, _, _, _)
RenderLoop_SkipUnsupported(formats, title, rr, now, i, files) ==
    IF i > Len(formats) THEN [ok |-> TRUE, files |-> files, err |-> <<>>]
    ELSE LET fmt == formats[i] IN
         IF fmt \notin SupportedFormats
         THEN RenderLoop_SkipUnsupported(formats, title, rr, now, i + 1, files)
         ELSE IF ~rr[i].ok
         THEN [ok |-> FALSE, files |-> <<>>, err |-> <<"renderer error: ", fmt>>]
         ELSE RenderLoop_SkipUnsupported(formats, title, rr, now, i + 1,
                Append(files,
                    [format |-> fmt, content_type |-> ContentTypeOf(fmt),
                     file_name |-> <<SanitizeTitle(title), now, ExtensionOf(fmt)>>,
                     data |-> rr[i].data, page_count |-> None]))

\* the loop of render_all_formats from format i on, files being the files pushed so far;
\* rr[i] is the renderer's answer for format i
RECURSIVE RenderLoop(_, _, _, _, _, _)
RenderLoop(formats, title, rr, now, i, files) ==
    IF i > Len(formats) THEN [ok |-> TRUE, files |-> files, err |-> <<>>]
    ELSE LET fmt == formats[i] IN
         IF fmt \notin SupportedFormats
         THEN [ok |-> FALSE, files |-> <<>>, err |-> <<"Unsupported format: ", fmt>>]
         ELSE IF ~rr[i].ok
         THEN [ok |-> FALSE, files |-> <<>>, err |-> <<"renderer error: ", fmt>>]
         ELSE RenderLoop(formats, title, rr, now, i + 1,
                Append(files,
                    [format |-> fmt, content_type |-> ContentTypeOf(fmt),
                     file_name |-> <<SanitizeTitle(title), now, ExtensionOf(fmt)>>,
                     data |-> rr[i].data, page_count |-> None]))

\* RenderAllFormats refusing an empty list of formats, as handle_message refuses an
\* empty list of documents
RenderAllFormats_EmptyIsError(formats, title, rr, now) ==
    IF formats = <<>>
    THEN [ok |-> FALSE, files |-> <<>>, err |-> <<"no format requested">>]
    ELSE RenderLoop(formats, title, rr, now, 1, <<>>)

\* render_all_formats (pipeline.rs:181-227)
RenderAllFormats(formats, title, rr, now) == RenderLoop(formats, title, rr, now, 1, <<>>)

(***************************************************************************)
(* DocumentPipeline::process (pipeline.rs), one action per await point     *)
(***************************************************************************)
Init ==
    /\ documents = <<>>
    /\ artifacts = <<>>
    /\ objects = {}
    /\ clock = 1
    /\ statusLog = <<>>
    /\ uploadLog = <<>>
    /\ pc = [p \in ConcurrentWorkers |-> "start"]
    /\ req = [p \in ConcurrentWorkers |-> None]
    /\ doc_id = [p \in ConcurrentWorkers |-> 0]
    /\ template_content = [p \in ConcurrentWorkers |-> None]
    /\ rendered_files = [p \in ConcurrentWorkers |-> <<>>]
    /\ upload_results = [p \in ConcurrentWorkers |-> <<>>]
    /\ inserted = [p \in ConcurrentWorkers |-> 0]
    /\ err_msg = [p \in ConcurrentWorkers |-> None]
    /\ failure = [p \in ConcurrentWorkers |-> {}]
    /\ ops = [p \in ConcurrentWorkers |-> <<>>]
    /\ ret = [p \in ConcurrentWorkers |-> [kind |-> "none"]]
    /\ cancelled = FALSE
    /\ signalTask = "waiting"
    /\ loopPc = "top"
    /\ cycles = 0
    /\ recvErrs = 0
    /\ slept = 0
    /\ deliveries = [m \in Messages |->
                       [state |-> "pending", data |-> None, events |-> <<>>, calls |-> <<>>,
                        response |-> None, publish |-> None, ack |-> None]]
    /\ inFlightAtCancel = {}
    /\ conns = [c \in Conns |-> [busy |-> FALSE, session |-> None, local |-> None,
                                 in_txn |-> FALSE]]
    /\ units = [u \in Units |-> [at |-> "idle", tenant_id |-> "", op |-> "", id |-> 0,
                                 conn |-> "", ctx_at_query |-> None, touched |-> None]]
    /\ deleted = {}
    /\ trace = <<>>

\* process returns Err(msg): the ? operator after a failed call
ReturnErr(p, kind, msg) ==
    /\ pc' = [pc EXCEPT ![p] = "done"]
    /\ failure' = [failure EXCEPT ![p] = @ \cup {kind}]
    /\ ret' = [ret EXCEPT ![p] = [kind |-> "Err", msg |-> msg]]

\* WriteStatus with the error of a failed write dropped: process goes on at next
WriteStatus_ErrorIgnored(p, status, error_message, generation_metadata, next, returns) ==
    \E db_ok \in BOOLEAN :
        /\ ops' = [ops EXCEPT ![p] = Append(@, [op |-> "update_document_status", ok |-> db_ok])]
        /\ pc' = [pc EXCEPT ![p] = next]
        /\ IF db_ok
           THEN LET row == UpdateDocumentStatus(documents[doc_id[p]], status, error_message,
                                                generation_metadata, clock)
                IN  /\ documents' = [documents EXCEPT ![doc_id[p]] = row]
                    /\ statusLog' = [statusLog EXCEPT ![doc_id[p]] = Append(@, status)]
                    /\ clock' = clock + 1
                    /\ ret' = IF returns THEN [ret EXCEPT ![p] = [kind |-> "Ok", doc |-> row]]
                              ELSE ret
                    /\ UNCHANGED failure
           ELSE /\ failure' = [failure EXCEPT ![p] = @ \cup {"status_write"}]
                /\ UNCHANGED <<documents, statusLog, clock, ret>>

\* WriteStatus with the UPDATE aimed at the newest row instead of the row of doc.id
WriteStatus_NewestRow(p, status, error_message, generation_metadata, next, returns) ==
    \E db_ok \in BOOLEAN :
        /\ ops' = [ops EXCEPT ![p] = Append(@, [op |-> "update_document_status", ok |-> db_ok])]
        /\ IF db_ok
           THEN LET id == Len(documents)
                    row == UpdateDocumentStatus(documents[id], status, error_message,
                                                generation_metadata, clock)
                IN  /\ documents' = [documents EXCEPT ![id] = row]
                    /\ statusLog' = [statusLog EXCEPT ![id] = Append(@, status)]
                    /\ clock' = clock + 1
                    /\ pc' = [pc EXCEPT ![p] = next]
                    /\ ret' = IF returns THEN [ret EXCEPT ![p] = [kind |-> "Ok", doc |-> row]]
                              ELSE ret
                    /\ UNCHANGED failure
           ELSE /\ ReturnErr(p, "status_write", "Failed to update document status")
                /\ UNCHANGED <<documents, statusLog, clock>>

\* self.db.update_document_status(req.tenant_id, doc.id, status, error_message,
\* generation_metadata).await? : the write is applied and process goes on at next (or
\* returns Ok(row) when returns), or the call fails and process returns the error
WriteStatus(p, status, error_message, generation_metadata, next, returns) ==
    \E db_ok \in BOOLEAN :
        /\ ops' = [ops EXCEPT ![p] = Append(@, [op |-> "update_document_status", ok |-> db_ok])]
        /\ IF db_ok
           THEN LET row == UpdateDocumentStatus(documents[doc_id[p]], status, error_message,
                                                generation_metadata, clock)
                IN  /\ documents' = [documents EXCEPT ![doc_id[p]] = row]
                    /\ statusLog' = [statusLog EXCEPT ![doc_id[p]] = Append(@, status)]
                    /\ clock' = clock + 1
                    /\ pc' = [pc EXCEPT ![p] = next]
                    /\ ret' = IF returns THEN [ret EXCEPT ![p] = [kind |-> "Ok", doc |-> row]]
                              ELSE ret
                    /\ UNCHANGED failure
           ELSE /\ ReturnErr(p, "status_write", "Failed to update document status")
                /\ UNCHANGED <<documents, statusLog, clock>>

\* Process_CreateDocument going on to step 3 when the insert failed
Process_CreateDocument_Swallowed(p) ==
    /\ pc[p] = "start"
    /\ \E r \in Requests, db_ok \in BOOLEAN :
        /\ req' = [req EXCEPT ![p] = r]
        /\ ops' = [ops EXCEPT ![p] = Append(@, [op |-> "create_document", ok |-> db_ok])]
        /\ IF db_ok
           THEN /\ documents' = Append(documents, CreateDocumentRow(r, Len(documents) + 1))
                /\ statusLog' = Append(statusLog, <<"queued">>)
                /\ doc_id' = [doc_id EXCEPT ![p] = Len(documents) + 1]
                /\ pc' = [pc EXCEPT ![p] = "processing"]
                /\ UNCHANGED <<failure, ret>>
           ELSE /\ failure' = [failure EXCEPT ![p] = @ \cup {"create_document"}]
                /\ pc' = [pc EXCEPT ![p] = "template"]
                /\ UNCHANGED <<documents, statusLog, doc_id, ret>>
    /\ UNCHANGED <<artifacts, objects, clock, uploadLog, template_content, rendered_files,
                   upload_results, inserted, err_msg>>

\* 1. Insert document record as 'queued' (pipeline.rs:44-59)
Process_CreateDocument(p) ==
    /\ pc[p] = "start"
    /\ \E r \in Requests, db_ok \in BOOLEAN :
        /\ req' = [req EXCEPT ![p] = r]
        /\ ops' = [ops EXCEPT ![p] = Append(@, [op |-> "create_document", ok |-> db_ok])]
        /\ IF db_ok
           THEN /\ documents' = Append(documents, CreateDocumentRow(r, Len(documents) + 1))
                /\ statusLog' = Append(statusLog, <<"queued">>)
                /\ doc_id' = [doc_id EXCEPT ![p] = Len(documents) + 1]
                /\ pc' = [pc EXCEPT ![p] = "processing"]
                /\ UNCHANGED <<failure, ret>>
           ELSE /\ ReturnErr(p, "create_document", "Failed to create document record")
                /\ UNCHANGED <<documents, statusLog, doc_id>>
    /\ UNCHANGED <<artifacts, objects, clock, uploadLog, template_content, rendered_files,
                   upload_results, inserted, err_msg>>

\* 2. Transition to 'processing' (pipeline.rs:63-66)
Process_Processing(p) ==
    /\ pc[p] = "processing"
    /\ WriteStatus(p, "processing", None, None, "template", FALSE)
    /\ UNCHANGED <<artifacts, objects, uploadLog, req, doc_id, template_content,
                   rendered_files, upload_results, inserted, err_msg>>

\* ResolveTemplate falling back to the default lookup when the id names no active row
ResolveTemplate_Fallback(r) ==
    IF r.template_id # None /\ GetTemplate(r.tenant_id, r.template_id[1]) # None
    THEN GetTemplate(r.tenant_id, r.template_id[1])
    ELSE GetTemplateByType(r.tenant_id, r.document_type, "pdf")

\* the template step 3 looks up: by id when the request carries one, else the default
\* template of the document type for the format "pdf" (pipeline.rs:69-84)
ResolveTemplate(r) ==
    IF r.template_id # None
    THEN GetTemplate(r.tenant_id, r.template_id[1])
    ELSE GetTemplateByType(r.tenant_id, r.document_type, "pdf")

\* 3. Resolve template (pipeline.rs:68-84): a failed query and a missing template both
\* leave process through the ? operator
Process_ResolveTemplate(p) ==
    /\ pc[p] = "template"
    /\ \E db_ok \in BOOLEAN :
        /\ ops' = [ops EXCEPT ![p] = Append(@,
                    [op |-> IF req[p].template_id # None THEN "get_template"
                            ELSE "get_template_by_type",
                     ok |-> db_ok])]
        /\ IF ~db_ok
           THEN /\ ReturnErr(p, "template_read", "Failed to fetch template")
                /\ UNCHANGED template_content
           ELSE LET tpl == ResolveTemplate(req[p]) IN
                IF tpl = None
                THEN /\ ReturnErr(p, "template_not_found",
                           IF req[p].template_id # None
                           THEN "Requested template not found"
                           ELSE "No default template found for document type")
                     /\ UNCHANGED template_content
                ELSE /\ template_content' =
                           [template_content EXCEPT ![p] = Some(tpl[1].template_content)]
                     /\ pc' = [pc EXCEPT ![p] = "rendering"]
                     /\ UNCHANGED <<failure, ret>>
    /\ UNCHANGED <<documents, artifacts, objects, clock, statusLog, uploadLog, req, doc_id,
                   rendered_files, upload_results, inserted, err_msg>>

\* Process_Rendering without its status write
Process_Rendering_Unwritten(p) ==
    /\ pc[p] = "rendering"
    /\ pc' = [pc EXCEPT ![p] = "render"]
    /\ UNCHANGED <<documents, statusLog, clock, failure, ops, ret>>
    /\ UNCHANGED <<artifacts, objects, uploadLog, req, doc_id, template_content,
                   rendered_files, upload_results, inserted, err_msg>>

\* 4. Transition to 'rendering' (pipeline.rs:87-89)
Process_Rendering(p) ==
    /\ pc[p] = "rendering"
    /\ WriteStatus(p, "rendering", None, None, "render", FALSE)
    /\ UNCHANGED <<artifacts, objects, uploadLog, req, doc_id, template_content,
                   rendered_files, upload_results, inserted, err_msg>>

\* render_all_formats(...).await and the match on its result (pipeline.rs:91-98)
Process_Render(p) ==
    /\ pc[p] = "render"
    /\ \E rr \in [1..Len(req[p].requested_formats) -> RenderResults] :
        LET res == RenderAllFormats(req[p].requested_formats, req[p].title, rr, clock) IN
        /\ ops' = [ops EXCEPT ![p] = Append(@, [op |-> "render_all_formats", ok |-> res.ok])]
        /\ IF res.ok
           THEN /\ rendered_files' = [rendered_files EXCEPT ![p] = res.files]
                /\ pc' = [pc EXCEPT ![p] = "uploading"]
                /\ UNCHANGED <<err_msg, failure>>
           ELSE /\ err_msg' = [err_msg EXCEPT ![p] = Some(<<"Rendering failed: ", res.err>>)]
                /\ failure' = [failure EXCEPT ![p] = @ \cup {"render"}]
                /\ pc' = [pc EXCEPT ![p] = "render_failed"]
                /\ UNCHANGED rendered_files
    /\ UNCHANGED <<documents, artifacts, objects, clock, statusLog, uploadLog, req, doc_id,
                   template_content, upload_results, inserted, ret>>

\* Process_RenderFailed without the message
Process_RenderFailed_NoMessage(p) ==
    /\ pc[p] = "render_failed"
    /\ WriteStatus(p, "failed", None, None, "done", TRUE)
    /\ UNCHANGED <<artifacts, objects, uploadLog, req, doc_id, template_content,
                   rendered_files, upload_results, inserted, err_msg>>

\* Process_RenderFailed without the return: process goes on to step 5
Process_RenderFailed_NoReturn(p) ==
    /\ pc[p] = "render_failed"
    /\ WriteStatus(p, "failed", err_msg[p], None, "uploading", FALSE)
    /\ UNCHANGED <<artifacts, objects, uploadLog, req, doc_id, template_content,
                   rendered_files, upload_results, inserted, err_msg>>

\* Err(e) of the render: write 'failed' with the message, return Ok(failed)
\* (pipeline.rs:96-104)
Process_RenderFailed(p) ==
    /\ pc[p] = "render_failed"
    /\ WriteStatus(p, "failed", err_msg[p], None, "done", TRUE)
    /\ UNCHANGED <<artifacts, objects, uploadLog, req, doc_id, template_content,
                   rendered_files, upload_results, inserted, err_msg>>

\* 5. Transition to 'uploading' (pipeline.rs:108-110)
Process_Uploading(p) ==
    /\ pc[p] = "uploading"
    /\ WriteStatus(p, "uploading", None, None, "upload", FALSE)
    /\ UNCHANGED <<artifacts, objects, uploadLog, req, doc_id, template_content,
                   rendered_files, upload_results, inserted, err_msg>>

\* Process_UploadArtifact deleting the objects of the job when an upload fails
Process_UploadArtifact_CleansUp(p) ==
    /\ pc[p] = "upload"
    /\ Len(upload_results[p]) < Len(rendered_files[p])
    /\ LET file == rendered_files[p][Len(upload_results[p]) + 1]
           result == UploadArtifact(req[p].tenant_id, req[p].project_id, doc_id[p], file)
       IN  \E gcs_ok \in BOOLEAN :
            /\ ops' = [ops EXCEPT ![p] = Append(@, [op |-> "upload_artifact", ok |-> gcs_ok])]
            /\ IF gcs_ok
               THEN /\ objects' = PutObject(objects, result.gcs_path, file.data)
                    /\ uploadLog' = Append(uploadLog, doc_id[p])
                    /\ upload_results' = [upload_results EXCEPT ![p] = Append(@, result)]
                    /\ UNCHANGED <<pc, err_msg, failure>>
               ELSE /\ upload_results' = [upload_results EXCEPT ![p] = <<>>]
                    /\ err_msg' = [err_msg EXCEPT ![p] =
                           Some(<<"GCS upload failed: ", <<"Failed to upload ", file.file_name>>>>)]
                    /\ failure' = [failure EXCEPT ![p] = @ \cup {"upload"}]
                    /\ pc' = [pc EXCEPT ![p] = "upload_failed"]
                    /\ objects' = {o \in objects :
                                     \A i \in DOMAIN upload_results[p] :
                                         o.path # upload_results[p][i].gcs_path}
                    /\ UNCHANGED uploadLog
    /\ UNCHANGED <<documents, artifacts, clock, statusLog, req, doc_id, template_content,
                   rendered_files, inserted, ret>>

\* one turn of the loop of upload_all_artifacts (gcs.rs:137-142): upload the next file;
\* a failed upload leaves the loop, drops the results and is matched at pipeline.rs:118
Process_UploadArtifact(p) ==
    /\ pc[p] = "upload"
    /\ Len(upload_results[p]) < Len(rendered_files[p])
    /\ LET file == rendered_files[p][Len(upload_results[p]) + 1]
           result == UploadArtifact(req[p].tenant_id, req[p].project_id, doc_id[p], file)
       IN  \E gcs_ok \in BOOLEAN :
            /\ ops' = [ops EXCEPT ![p] = Append(@, [op |-> "upload_artifact", ok |-> gcs_ok])]
            /\ IF gcs_ok
               THEN /\ objects' = PutObject(objects, result.gcs_path, file.data)
                    /\ uploadLog' = Append(uploadLog, doc_id[p])
                    /\ upload_results' = [upload_results EXCEPT ![p] = Append(@, result)]
                    /\ UNCHANGED <<pc, err_msg, failure>>
               ELSE /\ upload_results' = [upload_results EXCEPT ![p] = <<>>]
                    /\ err_msg' = [err_msg EXCEPT ![p] =
                           Some(<<"GCS upload failed: ", <<"Failed to upload ", file.file_name>>>>)]
                    /\ failure' = [failure EXCEPT ![p] = @ \cup {"upload"}]
                    /\ pc' = [pc EXCEPT ![p] = "upload_failed"]
                    /\ UNCHANGED <<objects, uploadLog>>
    /\ UNCHANGED <<documents, artifacts, clock, statusLog, req, doc_id, template_content,
                   rendered_files, inserted, ret>>

\* Process_UploadDone leaving the loop of upload_all_artifacts before its last file
Process_UploadDone_Early(p) ==
    /\ pc[p] = "upload"
    /\ Len(upload_results[p]) <= Len(rendered_files[p])
    /\ pc' = [pc EXCEPT ![p] = "artifacts"]
    /\ UNCHANGED <<documents, artifacts, objects, clock, statusLog, uploadLog, req, doc_id,
                   template_content, rendered_files, upload_results, inserted, err_msg,
                   failure, ops, ret>>

\* upload_all_artifacts returns Ok(results) (gcs.rs:143, pipeline.rs:117)
Process_UploadDone(p) ==
    /\ pc[p] = "upload"
    /\ Len(upload_results[p]) = Len(rendered_files[p])
    /\ pc' = [pc EXCEPT ![p] = "artifacts"]
    /\ UNCHANGED <<documents, artifacts, objects, clock, statusLog, uploadLog, req, doc_id,
                   template_content, rendered_files, upload_results, inserted, err_msg,
                   failure, ops, ret>>

\* Process_UploadFailed without the return: process goes on to step 6
Process_UploadFailed_NoReturn(p) ==
    /\ pc[p] = "upload_failed"
    /\ WriteStatus(p, "failed", err_msg[p], None, "artifacts", FALSE)
    /\ UNCHANGED <<artifacts, objects, uploadLog, req, doc_id, template_content,
                   rendered_files, upload_results, inserted, err_msg>>

\* Err(e) of the upload: write 'failed' with the message, return Ok(failed)
\* (pipeline.rs:118-126)
Process_UploadFailed(p) ==
    /\ pc[p] = "upload_failed"
    /\ WriteStatus(p, "failed", err_msg[p], None, "done", TRUE)
    /\ UNCHANGED <<artifacts, objects, uploadLog, req, doc_id, template_content,
                   rendered_files, upload_results, inserted, err_msg>>

\* Process_CreateArtifact leaving its loop after the first row
Process_CreateArtifact_FirstOnly(p) ==
    /\ pc[p] = "artifacts"
    /\ inserted[p] < Len(upload_results[p])
    /\ LET result == upload_results[p][inserted[p] + 1]
           input == [tenant_id |-> req[p].tenant_id, document_id |-> doc_id[p],
                     format |-> result.format, file_name |-> result.file_name,
                     gcs_path |-> result.gcs_path, file_size |-> result.file_size,
                     content_type |-> result.content_type,
                     sha256_checksum |-> result.sha256_checksum,
                     page_count |-> result.page_count]
       IN  \E db_ok \in BOOLEAN :
            /\ ops' = [ops EXCEPT ![p] = Append(@, [op |-> "create_artifact", ok |-> db_ok])]
            /\ IF db_ok
               THEN /\ artifacts' = Append(artifacts, CreateArtifactRow(input, Len(artifacts) + 1))
                    /\ inserted' = [inserted EXCEPT ![p] = Len(upload_results[p])]
                    /\ UNCHANGED <<pc, failure, ret>>
               ELSE /\ ReturnErr(p, "artifact_write", "Failed to persist artifact metadata")
                    /\ UNCHANGED <<artifacts, inserted>>
    /\ UNCHANGED <<documents, objects, clock, statusLog, uploadLog, req, doc_id,
                   template_content, rendered_files, upload_results, err_msg>>

\* Process_CreateArtifact taking every row from the first upload result
Process_CreateArtifact_FirstResult(p) ==
    /\ pc[p] = "artifacts"
    /\ inserted[p] < Len(upload_results[p])
    /\ LET result == upload_results[p][1]
           input == [tenant_id |-> req[p].tenant_id, document_id |-> doc_id[p],
                     format |-> result.format, file_name |-> result.file_name,
                     gcs_path |-> result.gcs_path, file_size |-> result.file_size,
                     content_type |-> result.content_type,
                     sha256_checksum |-> result.sha256_checksum,
                     page_count |-> result.page_count]
       IN  \E db_ok \in BOOLEAN :
            /\ ops' = [ops EXCEPT ![p] = Append(@, [op |-> "create_artifact", ok |-> db_ok])]
            /\ IF db_ok
               THEN /\ artifacts' = Append(artifacts, CreateArtifactRow(input, Len(artifacts) + 1))
                    /\ inserted' = [inserted EXCEPT ![p] = @ + 1]
                    /\ UNCHANGED <<pc, failure, ret>>
               ELSE /\ ReturnErr(p, "artifact_write", "Failed to persist artifact metadata")
                    /\ UNCHANGED <<artifacts, inserted>>
    /\ UNCHANGED <<documents, objects, clock, statusLog, uploadLog, req, doc_id,
                   template_content, rendered_files, upload_results, err_msg>>

\* Process_CreateArtifact with the rows of the job taken back when an insert fails, as
\* a loop run inside one transaction would
Process_CreateArtifact_RollsBack(p) ==
    /\ pc[p] = "artifacts"
    /\ inserted[p] < Len(upload_results[p])
    /\ LET result == upload_results[p][inserted[p] + 1]
           input == [tenant_id |-> req[p].tenant_id, document_id |-> doc_id[p],
                     format |-> result.format, file_name |-> result.file_name,
                     gcs_path |-> result.gcs_path, file_size |-> result.file_size,
                     content_type |-> result.content_type,
                     sha256_checksum |-> result.sha256_checksum,
                     page_count |-> result.page_count]
       IN  \E db_ok \in BOOLEAN :
            /\ ops' = [ops EXCEPT ![p] = Append(@, [op |-> "create_artifact", ok |-> db_ok])]
            /\ IF db_ok
               THEN /\ artifacts' = Append(artifacts, CreateArtifactRow(input, Len(artifacts) + 1))
                    /\ inserted' = [inserted EXCEPT ![p] = @ + 1]
                    /\ UNCHANGED <<pc, failure, ret>>
               ELSE /\ ReturnErr(p, "artifact_write", "Failed to persist artifact metadata")
                    /\ artifacts' = SelectSeq(artifacts, LAMBDA a : a.document_id # doc_id[p])
                    /\ UNCHANGED inserted
    /\ UNCHANGED <<documents, objects, clock, statusLog, uploadLog, req, doc_id,
                   template_content, rendered_files, upload_results, err_msg>>

\* 6. one turn of the loop that persists the artifact rows (pipeline.rs:130-148)
Process_CreateArtifact(p) ==
    /\ pc[p] = "artifacts"
    /\ inserted[p] < Len(upload_results[p])
    /\ LET result == upload_results[p][inserted[p] + 1]
           input == [tenant_id |-> req[p].tenant_id, document_id |-> doc_id[p],
                     format |-> result.format, file_name |-> result.file_name,
                     gcs_path |-> result.gcs_path, file_size |-> result.file_size,
                     content_type |-> result.content_type,
                     sha256_checksum |-> result.sha256_checksum,
                     page_count |-> result.page_count]
       IN  \E db_ok \in BOOLEAN :
            /\ ops' = [ops EXCEPT ![p] = Append(@, [op |-> "create_artifact", ok |-> db_ok])]
            /\ IF db_ok
               THEN /\ artifacts' = Append(artifacts, CreateArtifactRow(input, Len(artifacts) + 1))
                    /\ inserted' = [inserted EXCEPT ![p] = @ + 1]
                    /\ UNCHANGED <<pc, failure, ret>>
               ELSE /\ ReturnErr(p, "artifact_write", "Failed to persist artifact metadata")
                    /\ UNCHANGED <<artifacts, inserted>>
    /\ UNCHANGED <<documents, objects, clock, statusLog, uploadLog, req, doc_id,
                   template_content, rendered_files, upload_results, err_msg>>

\* GenMetadata with the files counted where their sizes are summed
GenMetadata_CountsFiles(results, now) ==
    [rendering_engine |-> "pandoc-xelatex", template_engine |-> "handlebars",
     formats_generated |-> [i \in 1..Len(results) |-> results[i].format],
     total_size_bytes |-> Len(results),
     completed_at |-> now]

\* 7. the generation metadata (pipeline.rs:151-157)
GenMetadata(results, now) ==
    [rendering_engine |-> "pandoc-xelatex", template_engine |-> "handlebars",
     formats_generated |-> [i \in 1..Len(results) |-> results[i].format],
     total_size_bytes |-> SumSeq([i \in 1..Len(results) |-> results[i].file_size]),
     completed_at |-> now]

\* 8. Mark completed, return Ok(completed) (pipeline.rs:160-177)
Process_Completed(p) ==
    /\ pc[p] = "artifacts"
    /\ inserted[p] = Len(upload_results[p])
    /\ WriteStatus(p, "completed", None, Some(GenMetadata(upload_results[p], clock)),
                   "done", TRUE)
    /\ UNCHANGED <<artifacts, objects, uploadLog, req, doc_id, template_content,
                   rendered_files, upload_results, inserted, err_msg>>

Process(p) ==
    \/ Process_CreateDocument(p)
    \/ Process_Processing(p)
    \/ Process_ResolveTemplate(p)
    \/ Process_Rendering(p)
    \/ Process_Render(p)
    \/ Process_RenderFailed(p)
    \/ Process_Uploading(p)
    \/ Process_UploadArtifact(p)
    \/ Process_UploadDone(p)
    \/ Process_UploadFailed(p)
    \/ Process_CreateArtifact(p)
    \/ Process_Completed(p)

Next == (\E p \in Workers : Process(p)) /\ UNCHANGED <<loopVars, tenantVars, trace>>

Spec == Init /\ [][Next]_vars

(***************************************************************************)
(* Two process calls running concurrently, as two message tasks run them   *)
(***************************************************************************)
\* the requests of the concurrent calls: an explicit active template, one format
ConcurrentRequests ==
    {r \in Requests : r.template_id = Some(1) /\ r.document_type = "srs"
                      /\ r.requested_formats = <<"pdf">>}

NextConcurrent ==
    /\ \E p \in ConcurrentWorkers :
        /\ Process(p)
        /\ pc[p] = "start" => req'[p] \in ConcurrentRequests
    /\ UNCHANGED <<loopVars, tenantVars, trace>>

SpecConcurrent == Init /\ [][NextConcurrent]_vars

(***************************************************************************)
(* The Document Record Store called directly: any caller, any arguments    *)
(***************************************************************************)
\* the inputs of the direct create_document calls
StoreInputs == {r \in Requests : r.template_id = None /\ r.requested_formats = <<>>}

\* the error messages and generation metadata of the direct calls
StoreErrorMessages == {None, Some(<<"Rendering failed: ", <<"renderer error: ", "pdf">>>>)}
StoreMetadata == {None, Some(GenMetadata(<<>>, 0))}

pipeVars == <<artifacts, objects, uploadLog, pc, req, doc_id, template_content,
              rendered_files, upload_results, inserted, err_msg, failure, ops, ret>>

\* DocumentDb::create_document (persistence.rs:127-156)
Store_CreateDocument ==
    /\ Len(documents) < MaxDocuments
    /\ \E input \in StoreInputs :
        /\ documents' = Append(documents, CreateDocumentRow(input, Len(documents) + 1))
        /\ statusLog' = Append(statusLog, <<"queued">>)
    /\ UNCHANGED <<clock, pipeVars>>

\* DocumentDb::update_document_status (persistence.rs:173-215) on a row that exists
Store_UpdateDocumentStatus ==
    /\ clock <= MaxUpdates
    /\ \E id \in DOMAIN documents, status \in Statuses,
          error_message \in StoreErrorMessages, generation_metadata \in StoreMetadata :
        /\ documents' = [documents EXCEPT ![id] =
                UpdateDocumentStatus(@, status, error_message, generation_metadata, clock)]
        /\ statusLog' = [statusLog EXCEPT ![id] = Append(@, status)]
    /\ clock' = clock + 1
    /\ UNCHANGED pipeVars

NextStore ==
    (Store_CreateDocument \/ Store_UpdateDocumentStatus) /\ UNCHANGED <<loopVars, tenantVars, trace>>

SpecStore == Init /\ [][NextStore]_vars

(***************************************************************************)
(* Message Consumption Loop (main.rs), MessageHandler (pubsub/handler.rs)  *)
(* and Publisher (pubsub/publisher.rs)                                     *)
(***************************************************************************)
\* tokio::time::Duration::from_secs(5)
BackoffSeconds == 5

\* config.pubsub.max_concurrent_messages, as configured for the runs of the model,
\* passed to process_messages as _max_concurrent
max_concurrent_messages == 1

\* models.rs SpecificationType, one variant create_generator accepts and one it rejects
SpecificationTypes == {"IEEE830SRS", "MilStd498SRS"}

\* the variants create_generator has an arm for (generators/mod.rs:28-44)
SupportedSpecificationTypes ==
    {"IEEE830DRD", "IEEE830SRS", "ISO29148StakeholderRequirements",
     "ISO29148SystemRequirements", "ISO29148SoftwareRequirements",
     "ISO29148ConceptOfOperations", "SecurityScanReport"}

\* models.rs DocumentFormat
DocumentFormats == {"PDF", "Markdown", "HTML"}

\* the message bodies: bytes serde_json cannot parse as a request, and requests
Payloads ==
    { [wellformed |-> FALSE, specification_type |-> "", output_formats |-> <<>>],
      [wellformed |-> TRUE, specification_type |-> "MilStd498SRS", output_formats |-> <<"PDF">>],
      [wellformed |-> TRUE, specification_type |-> "IEEE830SRS", output_formats |-> <<"PDF">>],
      [wellformed |-> TRUE, specification_type |-> "IEEE830SRS",
       output_formats |-> <<"PDF", "HTML">>] }

\* the strings uuid::Uuid::new_v4() gives, one per call
Uuids == {"uuid-m1", "uuid-m2"}
NewV4(m) == IF m = "m1" THEN "uuid-m1" ELSE "uuid-m2"

\* DocumentGenerationResponse::success (models.rs:86-94)
SuccessResponse(request_id, docs) ==
    [request_id |-> request_id, status |-> "success", documents |-> docs, error |-> None]

\* DocumentGenerationResponse::error (models.rs:96-104)
ErrorResponse(request_id, error) ==
    [request_id |-> request_id, status |-> "error", documents |-> <<>>, error |-> Some(error)]

\* RenderDocuments leaving its loop at the first format whose render fails
RECURSIVE RenderDocuments_StopAtFailure(_, _)
RenderDocuments_StopAtFailure(formats, render_ok) ==
    IF formats = <<>> THEN <<>>
    ELSE IF Head(formats) \in render_ok
         THEN <<Head(formats)>> \o RenderDocuments_StopAtFailure(Tail(formats), render_ok)
         ELSE <<>>

\* the for loop of handle_message: a format whose render fails is skipped
RECURSIVE RenderDocuments(_, _)
RenderDocuments(formats, render_ok) ==
    IF formats = <<>> THEN <<>>
    ELSE (IF Head(formats) \in render_ok THEN <<Head(formats)>> ELSE <<>>)
         \o RenderDocuments(Tail(formats), render_ok)

\* one "render_document" call per requested format
RECURSIVE RenderCalls(_)
RenderCalls(formats) ==
    IF formats = <<>> THEN <<>> ELSE <<"render_document">> \o RenderCalls(Tail(formats))

\* MessageHandler::handle_message: the response, and the calls made on the way.
\* generate_ok: generator.generate succeeds; render_ok: the formats whose render succeeds
HandleMessage(data, request_id, generate_ok, render_ok) ==
    IF ~data.wellformed
    THEN [response |-> ErrorResponse("unknown", "Invalid request format"),
          calls |-> <<"from_slice">>]
    ELSE IF data.specification_type \notin SupportedSpecificationTypes
    THEN [response |-> ErrorResponse(request_id, "Invalid specification type"),
          calls |-> <<"from_slice", "create_generator">>]
    ELSE IF ~generate_ok
    THEN [response |-> ErrorResponse(request_id, "generate failed"),
          calls |-> <<"from_slice", "create_generator", "generate">>]
    ELSE LET docs == RenderDocuments(data.output_formats, render_ok)
             calls == <<"from_slice", "create_generator", "generate">>
                      \o RenderCalls(data.output_formats)
         IN  IF docs = <<>>
             THEN [response |-> ErrorResponse(request_id,
                                    "Failed to generate documents in any requested format"),
                   calls |-> calls]
             ELSE [response |-> SuccessResponse(request_id, docs), calls |-> calls]

\* what process_messages leaves alone: the pipeline and the stores
storeVars == <<documents, artifacts, objects, clock, statusLog, uploadLog, pc, req, doc_id,
               template_content, rendered_files, upload_results, inserted, err_msg, failure,
               ops, ret, tenantVars, trace>>

\* the callback of message m is between its is_cancelled() test and its return
InFlight(m) == deliveries[m].state \in {"started", "handled", "published"}

\* the spawned task: ctrl_c() resolves Ok and the token is cancelled (main.rs:126-131)
Signal_CtrlC ==
    /\ signalTask = "waiting"
    /\ signalTask' = "done"
    /\ cancelled' = TRUE
    /\ inFlightAtCancel' = {m \in Messages : InFlight(m)}
    /\ UNCHANGED <<loopPc, cycles, recvErrs, slept, deliveries, storeVars>>

\* the spawned task: ctrl_c() resolves Err, logged, nothing cancelled (main.rs:132-134)
Signal_CtrlCErr ==
    /\ signalTask = "waiting"
    /\ signalTask' = "failed"
    /\ UNCHANGED <<cancelled, loopPc, cycles, recvErrs, slept, deliveries,
                   storeVars, inFlightAtCancel>>

\* Loop_Top without the is_cancelled() test
Loop_Top_Unchecked ==
    /\ loopPc = "top"
    /\ cycles < MaxCycles
    /\ loopPc' = "receive"
    /\ cycles' = cycles + 1
    /\ UNCHANGED <<cancelled, signalTask, recvErrs, slept, deliveries, storeVars, inFlightAtCancel>>

\* top of the loop: break when cancelled, else call subscription.receive (main.rs:140-155)
Loop_Top ==
    /\ loopPc = "top"
    /\ IF cancelled
       THEN /\ loopPc' = "exited"
            /\ UNCHANGED cycles
       ELSE /\ cycles < MaxCycles
            /\ loopPc' = "receive"
            /\ cycles' = cycles + 1
    /\ UNCHANGED <<cancelled, signalTask, recvErrs, slept, deliveries, storeVars, inFlightAtCancel>>

\* Receive_Deliver with a callback that does not test cancel.is_cancelled()
Receive_Deliver_Unchecked(m) ==
    /\ loopPc = "receive"
    /\ deliveries[m].state = "pending"
    /\ \E data \in Payloads :
        deliveries' = [deliveries EXCEPT ![m] =
                  [@ EXCEPT !.state = "started", !.data = Some(data)]]
    /\ UNCHANGED <<cancelled, signalTask, loopPc, cycles, recvErrs, slept,
                   storeVars, inFlightAtCancel>>

\* receive hands message m to the callback, which returns at once when cancelled
\* (main.rs:157-160)
Receive_Deliver(m) ==
    /\ loopPc = "receive"
    /\ deliveries[m].state = "pending"
    /\ \E data \in Payloads :
        deliveries' = [deliveries EXCEPT ![m] =
                  IF cancelled THEN [@ EXCEPT !.state = "skipped"]
                  ELSE [@ EXCEPT !.state = "started", !.data = Some(data)]]
    /\ UNCHANGED <<cancelled, signalTask, loopPc, cycles, recvErrs, slept,
                   storeVars, inFlightAtCancel>>

\* handler.handle_message(&message.message.data).await (main.rs:168)
Callback_Handle(m) ==
    /\ deliveries[m].state = "started"
    /\ \E generate_ok \in BOOLEAN, render_ok \in SUBSET {"PDF", "HTML"} :
        LET h == HandleMessage(deliveries[m].data[1], NewV4(m), generate_ok, render_ok)
        IN  deliveries' = [deliveries EXCEPT ![m] =
                      [@ EXCEPT !.state = "handled", !.events = Append(@, "handle"),
                                !.calls = h.calls, !.response = Some(h.response)]]
    /\ UNCHANGED <<cancelled, signalTask, loopPc, cycles, recvErrs, slept,
                   storeVars, inFlightAtCancel>>

\* Callback_Publish publishing success responses only
Callback_Publish_SuccessOnly(m) ==
    /\ deliveries[m].state = "handled"
    /\ \E published \in BOOLEAN :
        deliveries' = [deliveries EXCEPT ![m] =
                  IF deliveries[m].response[1].status = "error"
                  THEN [@ EXCEPT !.state = "published"]
                  ELSE [@ EXCEPT !.state = "published", !.events = Append(@, "publish"),
                                 !.publish = Some(published)]]
    /\ UNCHANGED <<cancelled, signalTask, loopPc, cycles, recvErrs, slept,
                   storeVars, inFlightAtCancel>>

\* Callback_Publish given up once the token is cancelled
Callback_Publish_UnlessCancelled(m) ==
    /\ ~cancelled
    /\ deliveries[m].state = "handled"
    /\ \E published \in BOOLEAN :
        deliveries' = [deliveries EXCEPT ![m] =
                  [@ EXCEPT !.state = "published", !.events = Append(@, "publish"),
                            !.publish = Some(published)]]
    /\ UNCHANGED <<cancelled, signalTask, loopPc, cycles, recvErrs, slept, storeVars,
                   inFlightAtCancel>>

\* Callback_Publish with a failure of publish_response ending the callback, as an error
\* propagated by ? would
Callback_Publish_FailureReturns(m) ==
    /\ deliveries[m].state = "handled"
    /\ \E published \in BOOLEAN :
        deliveries' = [deliveries EXCEPT ![m] =
                  [@ EXCEPT !.state = IF published THEN "published" ELSE "done",
                            !.events = Append(@, "publish"),
                            !.publish = Some(published)]]
    /\ UNCHANGED <<cancelled, signalTask, loopPc, cycles, recvErrs, slept,
                   storeVars, inFlightAtCancel>>

\* publisher.publish_response(&response).await: returns normally whether or not the
\* event was published (main.rs:171, publisher.rs:33-73)
Callback_Publish(m) ==
    /\ deliveries[m].state = "handled"
    /\ \E published \in BOOLEAN :
        deliveries' = [deliveries EXCEPT ![m] =
                  [@ EXCEPT !.state = "published", !.events = Append(@, "publish"),
                            !.publish = Some(published)]]
    /\ UNCHANGED <<cancelled, signalTask, loopPc, cycles, recvErrs, slept,
                   storeVars, inFlightAtCancel>>

\* Callback_Ack run as soon as the message is handled, before the publish
Callback_Ack_Early(m) ==
    /\ deliveries[m].state = "handled"
    /\ \E acked \in BOOLEAN :
        deliveries' = [deliveries EXCEPT ![m] =
                  [@ EXCEPT !.state = "done", !.events = Append(@, "ack"),
                            !.ack = Some(acked)]]
    /\ UNCHANGED <<cancelled, signalTask, loopPc, cycles, recvErrs, slept,
                   storeVars, inFlightAtCancel>>

\* message.ack().await, its error only logged (main.rs:174-185)
Callback_Ack(m) ==
    /\ deliveries[m].state = "published"
    /\ \E acked \in BOOLEAN :
        deliveries' = [deliveries EXCEPT ![m] =
                  [@ EXCEPT !.state = "done", !.events = Append(@, "ack"),
                            !.ack = Some(acked)]]
    /\ UNCHANGED <<cancelled, signalTask, loopPc, cycles, recvErrs, slept,
                   storeVars, inFlightAtCancel>>

\* receive(...).await gives Ok(()): the loop goes round (main.rs:193-196)
Receive_ReturnsOk ==
    /\ loopPc = "receive"
    /\ loopPc' = "top"
    /\ UNCHANGED <<cancelled, signalTask, cycles, recvErrs, slept, deliveries,
                   storeVars, inFlightAtCancel>>

\* Receive_ReturnsErr leaving the loop instead of sleeping
Receive_ReturnsErr_Exit ==
    /\ loopPc = "receive"
    /\ loopPc' = "exited"
    /\ recvErrs' = recvErrs + 1
    /\ UNCHANGED <<cancelled, signalTask, cycles, slept, deliveries, storeVars, inFlightAtCancel>>

\* receive(...).await gives Err(e): the loop logs and sleeps (main.rs:197-201)
Receive_ReturnsErr ==
    /\ loopPc = "receive"
    /\ loopPc' = "backoff"
    /\ recvErrs' = recvErrs + 1
    /\ UNCHANGED <<cancelled, signalTask, cycles, slept, deliveries, storeVars, inFlightAtCancel>>

\* the sleep is over: the loop goes round (main.rs:200-203)
Backoff_Done ==
    /\ loopPc = "backoff"
    /\ loopPc' = "top"
    /\ slept' = slept + BackoffSeconds
    /\ UNCHANGED <<cancelled, signalTask, cycles, recvErrs, deliveries,
                   storeVars, inFlightAtCancel>>

Callback(m) ==
    \/ Receive_Deliver(m)
    \/ Callback_Handle(m)
    \/ Callback_Publish(m)
    \/ Callback_Ack(m)

NextLoop ==
    \/ Signal_CtrlC
    \/ Signal_CtrlCErr
    \/ Loop_Top
    \/ \E m \in Messages : Callback(m)
    \/ Receive_ReturnsOk
    \/ Receive_ReturnsErr
    \/ Backoff_Done

SpecLoop == Init /\ [][NextLoop]_vars

\* the scheduler runs the loop task, the sleep ends, and receive honours the cancellation
SpecLoopFair ==
    /\ SpecLoop
    /\ WF_vars(Loop_Top)
    /\ WF_vars(Backoff_Done)
    /\ WF_vars(cancelled /\ (Receive_ReturnsOk \/ Receive_ReturnsErr))

\* the runtime keeps running the spawned callbacks: each await of a callback returns
SpecLoopTasks ==
    /\ SpecLoop
    /\ \A m \in Messages :
        /\ WF_vars(Callback_Handle(m))
        /\ WF_vars(Callback_Publish(m))
        /\ WF_vars(Callback_Ack(m))

(***************************************************************************)
(* The callback dispatching to the orchestrator, as the specification      *)
(* describes the data flow: the handler decodes the payload, calls         *)
(* DocumentPipeline::process and turns what it returns into the response.  *)
(* main.rs declares no pipeline module; the callback around the dispatch   *)
(* (publish, acknowledge) is the one of main.rs:157-186.                   *)
(***************************************************************************)
\* the worker whose process call serves the dispatched message
Dispatcher == CHOOSE p \in Workers : TRUE

\* the handler decoded the request of message m and calls process
Dispatch_Start(m) ==
    /\ deliveries[m].state = "started"
    /\ deliveries[m].data[1].wellformed
    /\ pc[Dispatcher] = "start"
    /\ deliveries' = [deliveries EXCEPT ![m] = [@ EXCEPT !.state = "dispatched"]]
    /\ UNCHANGED <<cancelled, signalTask, loopPc, cycles, recvErrs, slept,
                   storeVars, inFlightAtCancel>>

\* a step of the process call made for a dispatched message
Dispatch_Process ==
    /\ \E m \in Messages : deliveries[m].state = "dispatched"
    /\ Process(Dispatcher)
    /\ UNCHANGED <<loopVars, tenantVars, trace>>

\* the response for what process returned: handle_message returns a response for
\* every outcome (handler.rs:26), an Err becoming an error response as at 51-54
DispatchResponse(request_id, r) ==
    IF r.kind = "Err" THEN ErrorResponse(request_id, "request failed")
    ELSE IF r.doc.status = "completed"
    THEN SuccessResponse(request_id, r.doc.requested_formats)
    ELSE ErrorResponse(request_id, "document failed")

\* process returned: the handler returns the response to the callback
Dispatch_Return(m) ==
    /\ deliveries[m].state = "dispatched"
    /\ pc[Dispatcher] = "done"
    /\ deliveries' = [deliveries EXCEPT ![m] =
          [@ EXCEPT !.state = "handled", !.events = Append(@, "handle"),
                    !.calls = <<"from_slice", "process">>,
                    !.response = Some(DispatchResponse(NewV4(m), ret[Dispatcher]))]]
    /\ UNCHANGED <<cancelled, signalTask, loopPc, cycles, recvErrs, slept,
                   storeVars, inFlightAtCancel>>

NextDispatch ==
    \/ Loop_Top
    \/ \E m \in {"m1"} :
        \/ Receive_Deliver(m)
        \/ Dispatch_Start(m)
        \/ Dispatch_Return(m)
        \/ Callback_Publish(m)
        \/ Callback_Ack(m)
    \/ Dispatch_Process

SpecDispatch == Init /\ [][NextDispatch]_vars

(***************************************************************************)
(* Tenant context on pooled connections (persistence.rs): every operation  *)
(* of DocumentDb acquires a connection, runs set_tenant_context on it,     *)
(* runs its data query and drops the connection                            *)
(***************************************************************************)
\* the operations on storage.generated_documents
StoreOps == {"create_document", "get_document", "update_document_status", "delete_document"}

\* the end of a statement: outside a transaction block the statement is its own
\* transaction, and a transaction-local setting ends with it
EndStatement(c) == IF c.in_txn THEN c ELSE [c EXCEPT !.local = None]

\* SELECT set_config('app.current_tenant', value, is_local) executed on connection c
SetConfig(c, value, is_local) ==
    EndStatement(IF is_local THEN [c EXCEPT !.local = Some(value)]
                 ELSE [c EXCEPT !.session = Some(value)])

\* current_setting('app.current_tenant') on connection c
CurrentSetting(c) == IF c.local # None THEN c.local ELSE c.session

\* DocumentDb::set_tenant_context: set_config(..., true) on the connection as acquired
SetTenantContext(c, tenant_id) == SetConfig(c, tenant_id, TRUE)

\* row-level isolation: under the context of a tenant only that tenant's rows are
\* visible; policy_allows is what the store does with a query run under no context
RowVisible(ctx, row_tenant, policy_allows) ==
    IF ctx # None THEN row_tenant = ctx[1] ELSE policy_allows

\* the input of the create_document calls of tenant t
TenantInput(t) ==
    [tenant_id |-> t, project_id |-> 7, template_id |-> None, title |-> <<"A", " ", "1">>,
     document_type |-> "srs", requested_formats |-> <<>>]

pipeOnlyVars == <<artifacts, objects, uploadLog, pc, req, doc_id, template_content,
                  rendered_files, upload_results, inserted, err_msg, failure, ops, ret>>

\* self.pool.acquire().await: a connection that is not checked out
Unit_Acquire(u) ==
    /\ units[u].at = "idle"
    /\ \E c \in Conns, t \in StoreTenants, op \in StoreOps, id \in 1..MaxDocuments :
        /\ ~conns[c].busy
        /\ conns' = [conns EXCEPT ![c].busy = TRUE]
        /\ units' = [units EXCEPT ![u] =
                       [@ EXCEPT !.at = "acquired", !.tenant_id = t, !.op = op,
                                 !.id = IF op = "create_document" THEN 0 ELSE id,
                                 !.conn = c]]
    /\ UNCHANGED <<documents, statusLog, clock, deleted, pipeOnlyVars, loopVars, trace>>

\* Self::set_tenant_context(&mut conn, tenant_id).await?
Unit_SetTenantContext(u) ==
    /\ units[u].at = "acquired"
    /\ conns' = [conns EXCEPT ![units[u].conn] = SetTenantContext(@, units[u].tenant_id)]
    /\ units' = [units EXCEPT ![u].at = "context_set"]
    /\ UNCHANGED <<documents, statusLog, clock, deleted, pipeOnlyVars, loopVars, trace>>

\* the data query of the operation, run on the same connection, which is dropped
\* (returned to the pool) when the operation returns
Unit_DataQuery(u) ==
    /\ units[u].at = "context_set"
    /\ \E policy_allows \in BOOLEAN :
        LET c == units[u].conn
            ctx == CurrentSetting(conns[c])
            t == units[u].tenant_id
            id == units[u].id
            found == /\ id \in DOMAIN documents
                     /\ id \notin deleted
                     /\ RowVisible(ctx, documents[id].tenant_id, policy_allows)
            done(touched) ==
                units' = [units EXCEPT ![u] =
                            [@ EXCEPT !.at = "done", !.ctx_at_query = ctx,
                                      !.touched = touched]]
        IN  /\ conns' = [conns EXCEPT ![c] = [EndStatement(@) EXCEPT !.busy = FALSE]]
            /\ CASE units[u].op = "create_document" ->
                      IF RowVisible(ctx, t, policy_allows) /\ Len(documents) < MaxDocuments
                      THEN /\ documents' = Append(documents,
                                   CreateDocumentRow(TenantInput(t), Len(documents) + 1))
                           /\ statusLog' = Append(statusLog, <<"queued">>)
                           /\ done(Some(t))
                           /\ UNCHANGED <<clock, deleted>>
                      ELSE /\ done(None)
                           /\ UNCHANGED <<documents, statusLog, clock, deleted>>
                 [] units[u].op = "get_document" ->
                      /\ done(IF found THEN Some(documents[id].tenant_id) ELSE None)
                      /\ UNCHANGED <<documents, statusLog, clock, deleted>>
                 [] units[u].op = "update_document_status" ->
                      IF found
                      THEN /\ documents' = [documents EXCEPT ![id] =
                                   UpdateDocumentStatus(@, "processing", None, None, clock)]
                           /\ statusLog' = [statusLog EXCEPT ![id] = Append(@, "processing")]
                           /\ clock' = clock + 1
                           /\ done(Some(documents[id].tenant_id))
                           /\ UNCHANGED deleted
                      ELSE /\ done(None)
                           /\ UNCHANGED <<documents, statusLog, clock, deleted>>
                 [] units[u].op = "delete_document" ->
                      IF found
                      THEN /\ deleted' = deleted \cup {id}
                           /\ done(Some(documents[id].tenant_id))
                           /\ UNCHANGED <<documents, statusLog, clock>>
                      ELSE /\ done(None)
                           /\ UNCHANGED <<documents, statusLog, clock, deleted>>
    /\ UNCHANGED <<pipeOnlyVars, loopVars, trace>>

UnitOfWork(u) ==
    \/ Unit_Acquire(u)
    \/ Unit_SetTenantContext(u)
    \/ Unit_DataQuery(u)

NextTenant == \E u \in Units : UnitOfWork(u)

SpecTenant == Init /\ [][NextTenant]_vars

(***************************************************************************)
(* The administrative delete of a job: delete_artifacts_for_document,      *)
(* delete_objects on the paths returned, delete_document, each error       *)
(* propagated; it runs on the job of a process call that has returned, and *)
(* trace holds the calls it has made                                       *)
(***************************************************************************)
\* DocumentDb::delete_artifacts_for_document (persistence.rs:353-370)
AdminDelete_Artifacts ==
    /\ trace = <<>>
    /\ \E p \in Workers :
        /\ pc[p] = "done"
        /\ doc_id[p] # 0
        /\ \E db_ok \in BOOLEAN :
            LET out == DeleteArtifactsForDocument(artifacts, doc_id[p]) IN
            IF db_ok
            THEN /\ artifacts' = out.rows
                 /\ trace' = <<[fn |-> "delete_artifacts_for_document", id |-> doc_id[p],
                                ok |-> TRUE, paths |-> out.paths]>>
            ELSE /\ trace' = <<[fn |-> "delete_artifacts_for_document", id |-> doc_id[p],
                                ok |-> FALSE, paths |-> <<>>]>>
                 /\ UNCHANGED artifacts
    /\ UNCHANGED <<documents, objects, clock, statusLog, uploadLog, pc, req, doc_id,
                   template_content, rendered_files, upload_results, inserted, err_msg,
                   failure, ops, ret, loopVars, tenantVars>>

\* DocumentStorage::delete_objects (gcs.rs:196-203) on the paths returned
AdminDelete_Objects ==
    /\ Len(trace) = 1
    /\ trace[1].ok
    /\ \E fails \in [1..Len(trace[1].paths) -> BOOLEAN] :
        LET out == DeleteObjects(objects, trace[1].paths, fails) IN
        /\ objects' = out.bucket
        /\ trace' = Append(trace, [fn |-> "delete_objects", id |-> trace[1].id,
                                   ok |-> out.ok, paths |-> out.warned])
    /\ UNCHANGED <<documents, artifacts, clock, statusLog, uploadLog, pc, req, doc_id,
                   template_content, rendered_files, upload_results, inserted, err_msg,
                   failure, ops, ret, loopVars, tenantVars>>

\* DocumentDb::delete_document (persistence.rs:217-228): Ok(rows_affected > 0)
AdminDelete_Document ==
    /\ Len(trace) = 2
    /\ trace[2].ok
    /\ \E db_ok \in BOOLEAN :
        /\ deleted' = IF db_ok THEN deleted \cup {trace[1].id} ELSE deleted
        /\ trace' = Append(trace, [fn |-> "delete_document", id |-> trace[1].id,
                                   ok |-> db_ok, paths |-> <<>>])
    /\ UNCHANGED <<documents, artifacts, objects, clock, statusLog, uploadLog, pc, req,
                   doc_id, template_content, rendered_files, upload_results, inserted,
                   err_msg, failure, ops, ret, loopVars, conns, units>>

NextAdminDelete ==
    \/ Next
    \/ AdminDelete_Artifacts
    \/ AdminDelete_Objects
    \/ AdminDelete_Document

SpecAdminDelete == Init /\ [][NextAdminDelete]_vars

(***************************************************************************)
(* Functions checked by themselves: every call with inputs from a bounded   *)
(* set, its inputs and result kept in trace                                *)
(***************************************************************************)
\* everything but trace
restVars == <<documents, statusLog, clock, pipeOnlyVars, loopVars, tenantVars>>

\* the rendered files handed to upload_artifact
UploadByteValues == {0, 7}
UploadFiles ==
    {[format |-> f, content_type |-> ContentTypeOf(f),
      file_name |-> <<SanitizeTitle(<<"A">>), 1, ExtensionOf(f)>>,
      data |-> d, page_count |-> None] :
        f \in SupportedFormats, d \in UNION {[1..n -> UploadByteValues] : n \in 0..MaxBytes}}

\* DocumentStorage::upload_artifact (gcs.rs:76-126): the checksum is computed, then
\* file.data.clone() is handed to upload_object, which succeeds or fails
Call_UploadArtifact ==
    /\ Len(trace) < MaxCalls
    /\ \E file \in UploadFiles, gcs_ok \in BOOLEAN :
        LET result == UploadArtifact("T1", 7, 1, file)
        IN  trace' = Append(trace, [fn |-> "upload_artifact", handed |-> file.data,
                                    ok |-> gcs_ok, out |-> result])
    /\ UNCHANGED restVars

NextUpload == Call_UploadArtifact

SpecUpload == Init /\ [][NextUpload]_vars

\* the columns of a template row the default lookup reads
TemplateAttrs ==
    [template_type : {"srs", "sdd"}, is_system : BOOLEAN, is_active : BOOLEAN,
     updated_at : 1..2]

\* a row of storage.document_templates
TemplateRow(id, a) ==
    [id |-> id, tenant_id |-> "T1", template_type |-> a.template_type, format |-> "pdf",
     is_system |-> a.is_system, is_active |-> a.is_active, updated_at |-> a.updated_at,
     template_content |-> id]

\* the table holding the rows of ids ids with the columns attrs gives them
TemplateTable(ids, attrs) == {TemplateRow(i, attrs[i]) : i \in ids}

\* DocumentDb::get_template_by_type (persistence.rs:395-419) on any table of at most
\* MaxTemplates rows with distinct ids
Call_GetTemplateByType ==
    /\ trace = <<>>
    /\ \E ids \in SUBSET (1..MaxTemplates), template_type \in {"srs", "sdd"} :
        \E attrs \in [ids -> TemplateAttrs] :
            LET table == TemplateTable(ids, attrs) IN
            \E out \in GetTemplateByTypeResults(table, template_type, "pdf") :
                trace' = <<[fn |-> "get_template_by_type", table |-> table,
                            template_type |-> template_type, format |-> "pdf",
                            out |-> out]>>
    /\ UNCHANGED restVars

NextTemplates == Call_GetTemplateByType

SpecTemplates == Init /\ [][NextTemplates]_vars

\* the object paths of the bucket in the function-level specification
GcsPaths == {"p1", "p2", "p3"}

\* every list of at most MaxPaths paths, a path possibly listed twice
PathLists == UNION {[1..n -> GcsPaths] : n \in 0..MaxPaths}

\* every content of the bucket
Buckets == {{[path |-> q, data |-> <<7>>] : q \in Q} : Q \in SUBSET GcsPaths}

\* DocumentStorage::delete_objects (gcs.rs:196-203) on any bucket and list of paths
Call_DeleteObjects ==
    /\ trace = <<>>
    /\ \E bucket \in Buckets, gcs_paths \in PathLists :
        \E fails \in [1..Len(gcs_paths) -> BOOLEAN] :
            trace' = <<[fn |-> "delete_objects", bucket |-> bucket, gcs_paths |-> gcs_paths,
                        fails |-> fails, out |-> DeleteObjects(bucket, gcs_paths, fails)]>>
    /\ UNCHANGED restVars

NextDelete == Call_DeleteObjects

SpecDelete == Init /\ [][NextDelete]_vars

\* the characters of a title: alphanumerics, the two kept marks, and others
TitleChars == Alphanumerics \cup {"-", "_", " ", ".", "/", "\\"}

\* every title of at most MaxTitleLen characters
AnyTitles == UNION {[1..n -> TitleChars] : n \in 0..MaxTitleLen}

\* the instants Utc::now() may return
Instants ==
    [year : {2026}, month : {11}, day : {1}, hour : {9}, minute : {0, 59}, second : {5}]

DecimalDigits == <<"0", "1", "2", "3", "4", "5", "6", "7", "8", "9">>

\* n in decimal, zero-padded to width digits
RECURSIVE Digits(_, _)
Digits(n, width) ==
    IF width = 0 THEN <<>>
    ELSE Append(Digits(n \div 10, width - 1), DecimalDigits[(n % 10) + 1])

\* Utc::now().format("%Y%m%d_%H%M%S") (pipeline.rs:219)
FormatTimestamp(t) ==
    Digits(t.year, 4) \o Digits(t.month, 2) \o Digits(t.day, 2) \o <<"_">>
        \o Digits(t.hour, 2) \o Digits(t.minute, 2) \o Digits(t.second, 2)

\* the extension of a format, character by character (pipeline.rs:195, 200, 205)
ExtensionChars(fmt) ==
    CASE fmt = "pdf" -> <<"p", "d", "f">>
      [] fmt = "html" -> <<"h", "t", "m", "l">>
      [] fmt = "markdown" -> <<"m", "d">>

\* format!("{}_{}.{}", sanitized_title, Utc::now().format(...), extension)
FileName(sanitized_title, t, fmt) ==
    sanitized_title \o <<"_">> \o FormatTimestamp(t) \o <<".">> \o ExtensionChars(fmt)

\* the file name render_all_formats gives the file of one format (pipeline.rs:210-219)
Call_FileName ==
    /\ trace = <<>>
    /\ \E title \in AnyTitles, fmt \in SupportedFormats, t \in Instants :
        LET sanitized_title == SanitizeTitle(title) IN
        trace' = <<[fn |-> "file_name", title |-> title, format |-> fmt,
                    sanitized_title |-> sanitized_title,
                    file_name |-> FileName(sanitized_title, t, fmt)]>>
    /\ UNCHANGED restVars

NextTitle == Call_FileName

SpecTitle == Init /\ [][NextTitle]_vars

\* every message body: bytes that do not parse, and requests of either specification
\* type with any list of at most MaxFormats output formats, the empty list included
AnyPayloads ==
    {[wellformed |-> FALSE, specification_type |-> "", output_formats |-> <<>>]}
    \cup [wellformed : {TRUE}, specification_type : SpecificationTypes,
          output_formats : UNION {[1..n -> DocumentFormats] : n \in 0..MaxFormats}]

\* MessageHandler::handle_message (handler.rs:26-96) on any message body
Call_HandleMessage ==
    /\ trace = <<>>
    /\ \E data \in AnyPayloads, generate_ok \in BOOLEAN, render_ok \in SUBSET DocumentFormats :
        trace' = <<[fn |-> "handle_message", data |-> data, generate_ok |-> generate_ok,
                    render_ok |-> render_ok,
                    out |-> HandleMessage(data, "uuid-m1", generate_ok, render_ok)]>>
    /\ UNCHANGED restVars

NextHandle == Call_HandleMessage

SpecHandle == Init /\ [][NextHandle]_vars

(***************************************************************************)
(* Properties                                                              *)
(***************************************************************************)
Last(s) == s[Len(s)]

IsPrefix(s, t) == Len(s) <= Len(t) /\ \A i \in 1..Len(s) : s[i] = t[i]

\* the artifact rows of job id, in insertion order
ArtifactsIn(rows, id) == SelectSeq(rows, LAMBDA a : a.document_id = id)

\* how many objects were uploaded for job id
UploadsIn(log, id) == Cardinality({i \in DOMAIN log : log[i] = id})

HappyPath == <<"queued", "processing", "rendering", "uploading", "completed">>

\* a prefix of the happy path, or such a prefix ending in processing, rendering or
\* uploading followed by failed
AllowedStatusLog(s) ==
    /\ Len(s) >= 1
    /\ \/ IsPrefix(s, HappyPath)
       \/ /\ Last(s) = "failed"
          /\ Len(s) \in 3..5
          /\ IsPrefix(SubSeq(s, 1, Len(s) - 1), HappyPath)

\* the failures of database calls
DbFailures == {"create_document", "status_write", "template_read", "artifact_write"}

\* C1: the status values written to the record of every job process created are a
\* prefix of queued, processing, rendering, uploading, completed, optionally ended by
\* failed written directly after processing, rendering or uploading; the record holds
\* the value written last
C1_StatusSequence ==
    \A id \in DOMAIN statusLog :
        /\ AllowedStatusLog(statusLog[id])
        /\ documents[id].status = Last(statusLog[id])

C1_Witness ==
    \E id \in DOMAIN statusLog :
        statusLog[id] = <<"queued", "processing", "rendering", "uploading", "failed">>

\* C2: a process call that found no template and met no other failure has returned
\* Ok with the job failed and an error message on the record
C2_TemplateNotFoundFailsJob ==
    \A p \in Workers :
        (pc[p] = "done" /\ failure[p] = {"template_not_found"}) =>
            /\ ret[p].kind = "Ok"
            /\ ret[p].doc.status = "failed"
            /\ ret[p].doc.error_message # None
            /\ documents[doc_id[p]] = ret[p].doc

\* what process leaves behind when it handled a render failure as the claim says
RenderFailureOutcome(p) ==
    /\ ret[p].kind = "Ok"
    /\ ret[p].doc = documents[doc_id[p]]
    /\ ret[p].doc.status = "failed"
    /\ ret[p].doc.error_message # None
    /\ ret[p].doc.error_message = err_msg[p]
    /\ statusLog[doc_id[p]] = <<"queued", "processing", "rendering", "failed">>
    /\ UploadsIn(uploadLog, doc_id[p]) = 0
    /\ ArtifactsIn(artifacts, doc_id[p]) = <<>>

\* C3 as claimed: every process call whose rendering failed has returned Ok with the
\* job moved from rendering to failed, the error recorded, nothing uploaded and no
\* artifact row
C3_RenderFailureAlways ==
    \A p \in Workers :
        (pc[p] = "done" /\ "render" \in failure[p]) => RenderFailureOutcome(p)

\* C3 amended: the same, for the calls whose write of the failed status succeeded
C3_RenderFailure ==
    \A p \in Workers :
        (pc[p] = "done" /\ failure[p] = {"render"}) => RenderFailureOutcome(p)

\* the second of two formats failed to render after the first had rendered
C3_Witness ==
    \E p \in Workers :
        /\ pc[p] = "done"
        /\ failure[p] = {"render"}
        /\ Len(req[p].requested_formats) = 2
        /\ err_msg[p] = Some(<<"Rendering failed: ",
                               <<"renderer error: ", req[p].requested_formats[2]>>>>)

\* what process leaves behind when it handled an upload failure as the claim says
UploadFailureOutcome(p) ==
    /\ ret[p].kind = "Ok"
    /\ ret[p].doc = documents[doc_id[p]]
    /\ ret[p].doc.status = "failed"
    /\ ret[p].doc.error_message # None
    /\ ret[p].doc.error_message = err_msg[p]
    /\ ret[p].doc.generation_metadata = None
    /\ statusLog[doc_id[p]] = <<"queued", "processing", "rendering", "uploading", "failed">>
    /\ ArtifactsIn(artifacts, doc_id[p]) = <<>>

\* C4 as claimed: every process call one of whose uploads failed has returned Ok with
\* the job moved from uploading to failed, the error recorded, no artifact row and no
\* generation metadata
C4_UploadFailureAlways ==
    \A p \in Workers :
        (pc[p] = "done" /\ "upload" \in failure[p]) => UploadFailureOutcome(p)

\* C4 amended: the same, for the calls whose write of the failed status succeeded
C4_UploadFailure ==
    \A p \in Workers :
        (pc[p] = "done" /\ failure[p] = {"upload"}) => UploadFailureOutcome(p)

\* the upload of the second file failed after the first had been stored
C4_Witness ==
    \E p \in Workers :
        /\ pc[p] = "done"
        /\ failure[p] = {"upload"}
        /\ UploadsIn(uploadLog, doc_id[p]) = 1

\* C5: a process call that created its job and met no failed database call has left
\* the job completed or failed
C5_AlwaysTerminal ==
    \A p \in Workers :
        (pc[p] = "done" /\ doc_id[p] # 0 /\ failure[p] \cap DbFailures = {}) =>
            documents[doc_id[p]].status \in TerminalStatuses

\* C6: once the record of a job holds failed or completed, no step writes a status
\* for it, uploads an object for it or inserts an artifact row for it
C6_TerminalIsFinal ==
    [][\A id \in DOMAIN documents :
        documents[id].status \in TerminalStatuses =>
            /\ statusLog'[id] = statusLog[id]
            /\ documents'[id] = documents[id]
            /\ UploadsIn(uploadLog', id) = UploadsIn(uploadLog, id)
            /\ ArtifactsIn(artifacts', id) = ArtifactsIn(artifacts, id)]_vars

\* process has returned the failed record of a job whose rendering failed
C6_Witness ==
    \E p \in Workers :
        /\ pc[p] = "done"
        /\ ret[p].kind = "Ok"
        /\ documents[doc_id[p]].status = "failed"
        /\ "render" \in failure[p]

\* C7: on every job record completed_at is set exactly when the status is completed
\* or failed, and started_at exactly when the status is processing or later
C7_Timestamps ==
    \A id \in DOMAIN documents :
        /\ (documents[id].completed_at # None) <=> (documents[id].status \in TerminalStatuses)
        /\ (documents[id].started_at # None) <=> (documents[id].status # "queued")

C7_Witness ==
    \E id \in DOMAIN documents :
        /\ documents[id].status = "failed"
        /\ documents[id].started_at # None
        /\ documents[id].completed_at # None
        /\ documents[id].completed_at # documents[id].started_at

\* C8: on every job record error_message is set exactly when the status is failed
C8_ErrorMessage ==
    \A id \in DOMAIN documents :
        (documents[id].error_message # None) <=> (documents[id].status = "failed")

C8_Witness ==
    \E id \in DOMAIN documents :
        /\ documents[id].status = "failed"
        /\ documents[id].error_message # None
        /\ Len(statusLog[id]) = 5

\* the place of a status in the ordering; completed and failed share the last place
StatusRank(status) ==
    CASE status = "queued" -> 1
      [] status = "processing" -> 2
      [] status = "rendering" -> 3
      [] status = "uploading" -> 4
      [] status \in TerminalStatuses -> 5

\* C9: every status write the store applied kept the status or moved it forward in
\* the ordering, and none changed a completed or failed status
C9_StoreOnlyAdvances ==
    \A id \in DOMAIN statusLog :
        \A i \in 1..(Len(statusLog[id]) - 1) :
            LET old == statusLog[id][i]
                new == statusLog[id][i + 1]
            IN  /\ StatusRank(new) >= StatusRank(old)
                /\ old \in TerminalStatuses => new = old

\* C10: a process call that met no failure has returned the completed record, and the
\* job has one artifact row per requested format, in the requested order, each with a
\* checksum that is not empty
C10_HappyPath ==
    \A p \in Workers :
        (pc[p] = "done" /\ failure[p] = {}) =>
            LET rows == ArtifactsIn(artifacts, doc_id[p]) IN
            /\ ret[p].kind = "Ok"
            /\ ret[p].doc = documents[doc_id[p]]
            /\ ret[p].doc.status = "completed"
            /\ [i \in 1..Len(rows) |-> rows[i].format] = req[p].requested_formats
            /\ \A i \in 1..Len(rows) : Len(rows[i].sha256_checksum) > 0

\* two formats completed, one of them rendered to an empty file
C10_Witness ==
    \E p \in Workers :
        /\ pc[p] = "done"
        /\ failure[p] = {}
        /\ Len(req[p].requested_formats) = 2
        /\ \E i \in DOMAIN artifacts :
            artifacts[i].document_id = doc_id[p] /\ artifacts[i].file_size = 0

\* C11: a process call whose create_document failed has returned an error, and that
\* call is the only one it made: no status write, template lookup, render, upload or
\* artifact insert
C11_CreateFailure ==
    \A p \in Workers :
        "create_document" \in failure[p] =>
            /\ pc[p] = "done"
            /\ ret[p].kind = "Err"
            /\ ops[p] = <<[op |-> "create_document", ok |-> FALSE]>>
            /\ doc_id[p] = 0
            /\ template_content[p] = None
            /\ rendered_files[p] = <<>>
            /\ upload_results[p] = <<>>
            /\ inserted[p] = 0

C11_Witness ==
    \E p \in Workers : pc[p] = "done" /\ failure[p] = {"create_document"}

\* the calls of process that write a status or an artifact row
WriteOps == {"update_document_status", "create_artifact"}

\* C13: a failed status write or artifact-row write is the last call its process call
\* made, and that process call has returned an error
C13_WriteFailureStops ==
    \A p \in Workers :
        \A i \in DOMAIN ops[p] :
            (ops[p][i].op \in WriteOps /\ ~ops[p][i].ok) =>
                /\ i = Len(ops[p])
                /\ pc[p] = "done"
                /\ ret[p].kind = "Err"

\* the second artifact row failed after the first was inserted
C13_Witness ==
    \E p \in Workers :
        /\ pc[p] = "done"
        /\ "artifact_write" \in failure[p]
        /\ inserted[p] = 1

\* what the callback does for one message, in order
CallbackEvents == <<"handle", "publish", "ack">>

\* the callback of message m got past its is_cancelled() test
Started(m) == deliveries[m].state \in {"started", "handled", "published", "done"}

\* C16: for every message whose processing started, the events of its callback are a
\* prefix of handle, publish, ack (each at most once, in that order), all three have
\* happened when the callback is over, and an acknowledgment was attempted only after
\* the handler returned a response and the publish attempt returned
C16_HandlePublishAck ==
    \A m \in Messages :
        /\ IsPrefix(deliveries[m].events, CallbackEvents)
        /\ ~Started(m) => deliveries[m].events = <<>>
        /\ deliveries[m].state = "done" => deliveries[m].events = CallbackEvents
        /\ deliveries[m].ack # None =>
              /\ deliveries[m].response # None
              /\ deliveries[m].publish # None

\* a callback that is over, after a publish attempt that failed
C16_Witness ==
    \E m \in Messages :
        /\ deliveries[m].state = "done"
        /\ deliveries[m].publish = Some(FALSE)

\* the handler returned for a payload it could not decode
DecodeFailed(m) ==
    /\ deliveries[m].response # None
    /\ ~deliveries[m].data[1].wellformed

\* C17: for a payload that cannot be decoded the handler generates and renders nothing,
\* its error response carries a generated request id, and the message is acknowledged
C17_DecodeError ==
    \A m \in Messages :
        DecodeFailed(m) =>
            /\ deliveries[m].calls = <<"from_slice">>
            /\ deliveries[m].response[1].status = "error"
            /\ deliveries[m].response[1].request_id \in Uuids
            /\ deliveries[m].state = "done" => deliveries[m].ack # None

\* what the loop does with a receive error, step by step
ReceiveErrorStep ==
    /\ recvErrs' # recvErrs => (loopPc = "receive" /\ loopPc' = "backoff")
    /\ (loopPc = "backoff" /\ loopPc' # "backoff") =>
          (loopPc' = "top" /\ slept' = slept + BackoffSeconds)
    /\ (loopPc # "exited" /\ loopPc' = "exited") => (loopPc = "top" /\ cancelled)
    /\ loopPc = "exited" => loopPc' = "exited"

\* C18: every receive error sends the loop into the backoff pause, the pause lasts
\* BackoffSeconds and ends at the top of the loop, where a new receive cycle starts
\* unless the token is cancelled; the loop exits only from the top of the loop with
\* the token cancelled, whatever the number of receive errors
C18_ReceiveErrorBacksOff ==
    /\ [](slept = BackoffSeconds * (IF loopPc = "backoff" THEN recvErrs - 1 ELSE recvErrs))
    /\ [][ReceiveErrorStep]_vars
    /\ (loopPc = "backoff") ~> (loopPc = "receive" \/ cancelled \/ cycles = MaxCycles)

\* the second of two consecutive receive errors
C18_Witness ==
    /\ loopPc = "backoff"
    /\ recvErrs = 2
    /\ cycles = 2
    /\ ~cancelled

\* the handler returned an error response for message m
BusinessFailure(m) ==
    /\ deliveries[m].response # None
    /\ deliveries[m].response[1].status = "error"

\* C19 as stated: a message whose handling ended in a business-logic failure has its
\* error outcome published and is acknowledged
C19_PublishedAndAcked ==
    \A m \in Messages :
        (BusinessFailure(m) /\ deliveries[m].state = "done") =>
            /\ deliveries[m].publish = Some(TRUE)
            /\ deliveries[m].ack = Some(TRUE)

\* a step of a callback leaves the loop where it is, and the step into the backoff
\* pause is not a step of a callback
CallbackStep ==
    /\ deliveries' # deliveries => UNCHANGED <<loopPc, cycles, recvErrs, slept>>
    /\ (loopPc # "backoff" /\ loopPc' = "backoff") => UNCHANGED deliveries

\* C19: for a message whose handling ended in a business-logic failure the callback
\* attempts to publish the error response and then attempts to acknowledge the
\* message; the handler ran once for it, and no step of the callback moves the loop
\* into the backoff pause
C19_BusinessFailure ==
    /\ [](\A m \in Messages :
            BusinessFailure(m) =>
                /\ deliveries[m].response[1].documents = <<>>
                /\ deliveries[m].response[1].error # None
                /\ IsPrefix(deliveries[m].events, CallbackEvents)
                /\ deliveries[m].state = "done" =>
                      /\ deliveries[m].events = CallbackEvents
                      /\ deliveries[m].publish # None
                      /\ deliveries[m].ack # None)
    /\ [][CallbackStep]_vars

\* an unsupported document type whose error response could not be published
C19_Witness ==
    \E m \in Messages :
        /\ BusinessFailure(m)
        /\ deliveries[m].state = "done"
        /\ deliveries[m].calls = <<"from_slice", "create_generator">>
        /\ deliveries[m].publish = Some(FALSE)
        /\ recvErrs = 0

\* C20: once the token is cancelled the loop calls receive no more and leaves the top
\* of the loop only by exiting; when receive honours the cancellation the loop exits
C20_ShutdownExits ==
    /\ [][cancelled => /\ cycles' = cycles
                       /\ loopPc = "top" => loopPc' \in {"top", "exited"}]_vars
    /\ cancelled ~> (loopPc = "exited")

\* the loop exited after a cancellation that came during a receive call
C20_Witness ==
    /\ loopPc = "exited"
    /\ cancelled
    /\ cycles = 1

\* the process call made for message m returned an error because the job record could
\* not be created or a status or artifact write could not be persisted
RequestLevelFailure(m) ==
    /\ deliveries[m].calls = <<"from_slice", "process">>
    /\ ret[Dispatcher].kind = "Err"
    /\ failure[Dispatcher] \cap {"create_document", "status_write", "artifact_write"} # {}

Queried(u) == units[u].at = "done"

\* C15: when the data query of an operation ran, the tenant context of the caller was
\* in effect on its connection
C15_ContextInEffect ==
    \A u \in Units : Queried(u) => units[u].ctx_at_query = Some(units[u].tenant_id)

\* no context outlives the unit of work that set it
NoContextInPool == \A c \in Conns : ~conns[c].busy => CurrentSetting(conns[c]) = None

\* C14: an operation called with one tenant's id returns, updates or deletes only rows
\* of that tenant, and a connection that is back in the pool carries no tenant context
C14_TenantIsolation ==
    /\ \A u \in Units :
          Queried(u) => units[u].touched \in {None, Some(units[u].tenant_id)}
    /\ NoContextInPool

\* C21: a callback that was running when the token was cancelled is never undone or
\* skipped, and it goes on to the end: the handler returns, the publish is attempted
\* and the acknowledgment is attempted
C21_InFlightCompletes ==
    /\ [](\A m \in inFlightAtCancel : Started(m))
    /\ \A m \in Messages :
          (m \in inFlightAtCancel) ~>
              (deliveries[m].state = "done" /\ deliveries[m].events = CallbackEvents)

\* a callback that had not called the handler yet when the token was cancelled, over
C21_Witness ==
    \E m \in inFlightAtCancel :
        /\ cancelled
        /\ deliveries[m].state = "done"
        /\ deliveries[m].ack # None

\* C22: the callbacks running at any moment are at most max_concurrent_messages
C22_AtMostMaxConcurrent ==
    Cardinality({m \in Messages : InFlight(m)}) <= max_concurrent_messages

\* the variables of the process call of worker p
Local(p) ==
    <<pc[p], req[p], doc_id[p], template_content[p], rendered_files[p], upload_results[p],
      inserted[p], err_msg[p], failure[p], ops[p], ret[p]>>

\* a step that changes the record of a job, or adds an artifact row for it, is a step
\* of the process call that created the job; artifact rows are never changed
OwnJobOnly ==
    /\ \A id \in DOMAIN documents :
          (documents'[id] # documents[id] \/ statusLog'[id] # statusLog[id]) =>
              \E p \in ConcurrentWorkers : doc_id[p] = id /\ Local(p)' # Local(p)
    /\ \A i \in DOMAIN artifacts : artifacts'[i] = artifacts[i]
    /\ \A i \in DOMAIN artifacts' \ DOMAIN artifacts :
          \E p \in ConcurrentWorkers :
              artifacts'[i].document_id = doc_id[p] /\ Local(p)' # Local(p)

\* C23: with two process calls interleaved, the calls work on distinct jobs, each job
\* follows the status state machine by itself and its record holds its own last
\* status, every call returns the record of its own job, and no step of one call
\* changes the record or the artifact rows of the job of the other
C23_ConcurrentJobsIndependent ==
    /\ [](/\ \A p, q \in ConcurrentWorkers :
                (p # q /\ doc_id[p] # 0) => doc_id[p] # doc_id[q]
          /\ \A id \in DOMAIN statusLog :
                /\ AllowedStatusLog(statusLog[id])
                /\ documents[id].status = Last(statusLog[id])
          /\ \A p \in ConcurrentWorkers :
                (pc[p] = "done" /\ ret[p].kind = "Ok") =>
                    /\ ret[p].doc = documents[doc_id[p]]
                    /\ \A i \in DOMAIN artifacts :
                          artifacts[i].document_id = doc_id[p] =>
                              ret[p].doc.status = "completed")
    /\ [][OwnJobOnly]_vars

\* two jobs completed whose runs overlapped: each started before the other ended
C23_Witness ==
    /\ Len(documents) = 2
    /\ documents[1].status = "completed"
    /\ documents[2].status = "completed"
    /\ documents[2].started_at[1] < documents[1].completed_at[1]
    /\ documents[1].started_at[1] < documents[2].completed_at[1]
    /\ Len(ArtifactsIn(artifacts, 1)) = 1
    /\ Len(ArtifactsIn(artifacts, 2)) = 1

\* C24: the checksum of every successful upload_artifact call is the hex SHA-256 digest
\* of the bytes handed to upload_object and file_size is their number; two successful
\* calls handed the same bytes return the same checksum
C24_ChecksumOfUploadedBytes ==
    /\ \A i \in DOMAIN trace :
          trace[i].ok =>
              /\ trace[i].out.sha256_checksum = HexEncode(Sha256(trace[i].handed))
              /\ Len(trace[i].out.sha256_checksum) = 2 * DigestBytes
              /\ trace[i].out.file_size = Len(trace[i].handed)
    /\ \A i, j \in DOMAIN trace :
          (trace[i].ok /\ trace[j].ok /\ trace[i].handed = trace[j].handed) =>
              trace[i].out.sha256_checksum = trace[j].out.sha256_checksum

\* two files of different formats with the same non-empty bytes, both uploaded
C24_Witness ==
    /\ Len(trace) = 2
    /\ trace[1].ok /\ trace[2].ok
    /\ trace[1].handed = trace[2].handed
    /\ trace[1].handed # <<>>
    /\ trace[1].out.gcs_path # trace[2].out.gcs_path

\* what one update_document_status call does to the row it matches: old before, new
\* after, now the time of the call
StatusWriteFrame(old, new, now) ==
    /\ new.started_at = IF new.status = "processing" THEN Some(now) ELSE old.started_at
    /\ new.completed_at =
          IF new.status \in TerminalStatuses THEN Some(now) ELSE old.completed_at
    /\ new.error_message # old.error_message => new.error_message # None
    /\ new.generation_metadata # old.generation_metadata => new.generation_metadata # None
    /\ \A col \in {"id", "tenant_id", "project_id", "template_id", "title", "document_type",
                   "requested_formats"} : new[col] = old[col]

\* C25: an update_document_status call sets started_at exactly when the new status is
\* processing and completed_at exactly when it is completed or failed, replaces
\* error_message and generation_metadata only by a supplied value (never by NULL),
\* leaves every other column but status as it was, and rows it does not match untouched
C25_StatusWriteFrame ==
    [][\A id \in DOMAIN documents :
          IF statusLog'[id] # statusLog[id]
          THEN StatusWriteFrame(documents[id], documents'[id], clock)
          ELSE documents'[id] = documents[id]]_vars

\* a write of queued after processing and failed: both timestamps and the message stay
C25_Witness ==
    \E id \in DOMAIN documents :
        /\ documents[id].status = "queued"
        /\ documents[id].started_at # None
        /\ documents[id].completed_at # None
        /\ documents[id].error_message # None

\* the names of the calls the process call of worker p made
OpNames(p) == {ops[p][i].op : i \in DOMAIN ops[p]}

\* C26: a process call whose request carries a template id makes no default lookup,
\* the template it resolved is the active row of that id, and it found no template
\* exactly when no active row has that id; a call whose request carries no id makes
\* no lookup by id; no call makes more than one lookup
C26_ExplicitIdOnly ==
    \A p \in Workers :
        pc[p] # "start" =>
            /\ Cardinality({i \in DOMAIN ops[p] :
                    ops[p][i].op \in {"get_template", "get_template_by_type"}}) <= 1
            /\ IF req[p].template_id # None
               THEN LET rows == {t \in Templates :
                                    t.id = req[p].template_id[1] /\ t.is_active}
                    IN  /\ "get_template_by_type" \notin OpNames(p)
                        /\ template_content[p] # None =>
                              \E t \in rows : template_content[p] = Some(t.template_content)
                        /\ "template_not_found" \in failure[p] <=>
                              ("get_template" \in OpNames(p) /\ rows = {}
                                  /\ "template_read" \notin failure[p])
               ELSE "get_template" \notin OpNames(p)

\* the id names no row, the document type has a default template, and none was used
C26_Witness ==
    \E p \in Workers :
        /\ pc[p] = "done"
        /\ req[p].template_id = Some(4)
        /\ GetTemplateByType(req[p].tenant_id, req[p].document_type, "pdf") # None
        /\ OpNames(p) = {"create_document", "update_document_status", "get_template"}
        /\ template_content[p] = None

\* the active rows of the table of call c that match its type and format
Matching(c) ==
    {t \in c.table :
        t.template_type = c.template_type /\ t.format = c.format /\ t.is_active}

\* C27 as stated: the default lookup returns a row exactly when an active row matches,
\* and the row returned has the most recent updated_at of all matching active rows,
\* system or user
C27_MostRecentOfAll ==
    \A i \in DOMAIN trace :
        LET c == trace[i] IN
        /\ (c.out = None) <=> (Matching(c) = {})
        /\ c.out # None =>
              /\ c.out[1] \in Matching(c)
              /\ \A u \in Matching(c) : u.updated_at <= c.out[1].updated_at

\* C27: the default lookup returns a row exactly when an active row matches; it
\* returns a user template when one matches and a system template only when no user
\* template matches, and within that class a row with the most recent updated_at
C27_UserFirstThenMostRecent ==
    \A i \in DOMAIN trace :
        LET c == trace[i] IN
        /\ (c.out = None) <=> (Matching(c) = {})
        /\ c.out # None =>
              /\ c.out[1] \in Matching(c)
              /\ c.out[1].is_system => \A u \in Matching(c) : u.is_system
              /\ \A u \in Matching(c) :
                    u.is_system = c.out[1].is_system => u.updated_at <= c.out[1].updated_at

\* a user template returned although a matching system template is more recent
C27_Witness ==
    \E i \in DOMAIN trace :
        /\ trace[i].out # None
        /\ ~trace[i].out[1].is_system
        /\ \E u \in Matching(trace[i]) :
              u.is_system /\ u.updated_at > trace[i].out[1].updated_at

\* the requested formats hold a tag outside {pdf, html, markdown}
HasUnsupported(formats) == \E i \in DOMAIN formats : formats[i] \notin SupportedFormats

\* process has run its render step on a request with an unsupported tag
RenderedUnsupported(p) ==
    /\ pc[p] # "start"
    /\ HasUnsupported(req[p].requested_formats)
    /\ "render_all_formats" \in OpNames(p)

\* C28 as stated: every process call that rendered a request holding an unsupported
\* tag has ended with the job failed, the error recorded, nothing uploaded and no
\* artifact row
C28_UnsupportedAlwaysFailed ==
    \A p \in Workers :
        (pc[p] = "done" /\ RenderedUnsupported(p)) => RenderFailureOutcome(p)

\* C28: when the requested formats hold an unsupported tag at any position, the render
\* step returns an error and no rendered file, nothing is uploaded and no artifact
\* row is written for the job; the job ends failed when the write of the failed
\* status succeeded, and stays in rendering with the error returned when it did not
C28_UnsupportedTag ==
    \A p \in Workers :
        RenderedUnsupported(p) =>
            /\ \A i \in DOMAIN ops[p] : ops[p][i].op = "render_all_formats" => ~ops[p][i].ok
            /\ "render" \in failure[p]
            /\ rendered_files[p] = <<>>
            /\ "upload_artifact" \notin OpNames(p)
            /\ UploadsIn(uploadLog, doc_id[p]) = 0
            /\ ArtifactsIn(artifacts, doc_id[p]) = <<>>
            /\ pc[p] = "done" =>
                  IF failure[p] = {"render"}
                  THEN RenderFailureOutcome(p)
                  ELSE /\ failure[p] = {"render", "status_write"}
                       /\ ret[p].kind = "Err"
                       /\ documents[doc_id[p]].status = "rendering"

\* the first format rendered and the second, unsupported, failed the whole step
C28_Witness ==
    \E p \in Workers :
        /\ pc[p] = "done"
        /\ failure[p] = {"render"}
        /\ req[p].requested_formats = <<"pdf", "docx">>
        /\ err_msg[p] = Some(<<"Rendering failed: ", <<"Unsupported format: ", "docx">>>>)
        /\ rendered_files[p] = <<>>

\* the deletions of call c that failed: refused by the service, or of an object that
\* was never there or that an earlier deletion of the call had removed
FailedDeletions(c) ==
    {i \in DOMAIN c.gcs_paths :
        \/ c.fails[i]
        \/ c.gcs_paths[i] \notin {o.path : o \in c.bucket}
        \/ \E j \in 1..(i - 1) : c.gcs_paths[j] = c.gcs_paths[i] /\ ~c.fails[j]}

\* C29: delete_objects hands every path of its input to delete_object, in input order,
\* whatever deletions failed before; it returns Ok; the objects removed are those of
\* the deletions that did not fail, and every failed deletion is only warned about
C29_BestEffortDelete ==
    \A k \in DOMAIN trace :
        LET c == trace[k] IN
        /\ c.out.ok
        /\ c.out.attempted = c.gcs_paths
        /\ c.out.bucket =
              {o \in c.bucket :
                  \A i \in DOMAIN c.gcs_paths \ FailedDeletions(c) : c.gcs_paths[i] # o.path}
        /\ Len(c.out.warned) = Cardinality(FailedDeletions(c))
        /\ \A i \in FailedDeletions(c) : \E j \in DOMAIN c.out.warned :
              c.out.warned[j] = c.gcs_paths[i]

\* the first deletion was refused and the second still removed its object
C29_Witness ==
    \E k \in DOMAIN trace :
        LET c == trace[k] IN
        /\ Len(c.gcs_paths) = 2
        /\ c.fails[1] /\ ~c.fails[2]
        /\ c.gcs_paths[1] # c.gcs_paths[2]
        /\ {c.gcs_paths[1], c.gcs_paths[2]} \subseteq {o.path : o \in c.bucket}
        /\ c.gcs_paths[1] \in {o.path : o \in c.out.bucket}
        /\ c.gcs_paths[2] \notin {o.path : o \in c.out.bucket}
        /\ c.out.ok

PathSeparators == {"/", "\\"}

\* C30: the title part of a generated file name has the length of the title, holds
\* the title's character wherever that is alphanumeric, '-' or '_', and '_' at every
\* other position; the file name holds no path separator
C30_SanitizedFileName ==
    \A k \in DOMAIN trace :
        LET c == trace[k]
            n == Len(c.title)
        IN  /\ Len(c.sanitized_title) = n
            /\ Len(c.file_name) > n
            /\ SubSeq(c.file_name, 1, n) = c.sanitized_title
            /\ c.file_name[n + 1] = "_"
            /\ \A i \in 1..n :
                  c.file_name[i] = IF c.title[i] \in Alphanumerics \cup {"-", "_"}
                                   THEN c.title[i] ELSE "_"
            /\ \A i \in DOMAIN c.file_name : c.file_name[i] \notin PathSeparators

\* a title holding both path separators between kept characters
C30_Witness ==
    \E k \in DOMAIN trace :
        /\ trace[k].title = <<"/", "b", "\\">>
        /\ SubSeq(trace[k].file_name, 1, 4) = <<"_", "b", "_", "_">>
        /\ trace[k].format = "markdown"

\* C31: the generation_metadata of a job process created is non-null exactly when its
\* status is completed; on a completed job it lists the formats of the job's artifact
\* rows, which are the requested formats in requested order, and its total_size_bytes
\* is the sum of the file sizes of those rows
C31_MetadataOnCompleted ==
    \A p \in Workers :
        doc_id[p] # 0 =>
            LET doc == documents[doc_id[p]]
                rows == ArtifactsIn(artifacts, doc_id[p])
            IN  /\ (doc.generation_metadata # None) <=> (doc.status = "completed")
                /\ doc.status = "completed" =>
                      LET meta == doc.generation_metadata[1] IN
                      /\ meta.formats_generated = [i \in 1..Len(rows) |-> rows[i].format]
                      /\ meta.formats_generated = req[p].requested_formats
                      /\ meta.total_size_bytes =
                            SumSeq([i \in 1..Len(rows) |-> rows[i].file_size])

\* a completed job of two formats, one file empty and one not
C31_Witness ==
    \E p \in Workers :
        /\ doc_id[p] # 0
        /\ documents[doc_id[p]].status = "completed"
        /\ documents[doc_id[p]].generation_metadata # None
        /\ Len(documents[doc_id[p]].generation_metadata[1].formats_generated) = 2
        /\ documents[doc_id[p]].generation_metadata[1].total_size_bytes = 1

CallsBefore(p, i, op, ok) ==
    {j \in 1..(i - 1) : ops[p][j].op = op /\ ops[p][j].ok = ok}

\* C33: in every process call, an upload is made only after render_all_formats
\* returned the files of all requested formats and a status write (the one of
\* uploading) succeeded after it, and an artifact row is inserted only after the
\* uploads of all requested formats succeeded and none failed
C33_StagesSequential ==
    \A p \in Workers :
        \A i \in DOMAIN ops[p] :
            /\ ops[p][i].op = "upload_artifact" =>
                  /\ Cardinality(CallsBefore(p, i, "render_all_formats", TRUE)) = 1
                  /\ Len(rendered_files[p]) = Len(req[p].requested_formats)
                  /\ \E k \in CallsBefore(p, i, "update_document_status", TRUE) :
                        \A j \in CallsBefore(p, i, "render_all_formats", TRUE) : j < k
                  /\ \E n \in DOMAIN statusLog[doc_id[p]] :
                        statusLog[doc_id[p]][n] = "uploading"
                  /\ CallsBefore(p, i, "create_artifact", TRUE) = {}
                  /\ CallsBefore(p, i, "create_artifact", FALSE) = {}
            /\ ops[p][i].op = "create_artifact" =>
                  /\ Cardinality(CallsBefore(p, i, "upload_artifact", TRUE))
                        = Len(req[p].requested_formats)
                  /\ CallsBefore(p, i, "upload_artifact", FALSE) = {}
                  /\ Len(upload_results[p]) = Len(req[p].requested_formats)

\* a call of two formats that made both uploads and then inserted both rows
C33_Witness ==
    \E p \in Workers :
        /\ Len(ops[p]) >= 2
        /\ ops[p][Len(ops[p])] = [op |-> "create_artifact", ok |-> TRUE]
        /\ ops[p][Len(ops[p]) - 1] = [op |-> "create_artifact", ok |-> TRUE]
        /\ Cardinality(CallsBefore(p, Len(ops[p]), "upload_artifact", TRUE)) = 2

\* C34: the i-th artifact row of a job process created carries the path, file size,
\* checksum, content type, format and file name that the job's i-th upload returned,
\* the path being one of the job at which an object was stored; a job in status
\* queued, processing, rendering or failed has no artifact row
C34_ArtifactOfUpload ==
    \A p \in Workers :
        doc_id[p] # 0 =>
            LET rows == ArtifactsIn(artifacts, doc_id[p])
                job == documents[doc_id[p]]
            IN  /\ Len(rows) <= Len(upload_results[p])
                /\ Len(rows) <= UploadsIn(uploadLog, doc_id[p])
                /\ \A i \in 1..Len(rows) :
                      LET result == upload_results[p][i]
                          file == rendered_files[p][i]
                      IN  /\ rows[i].gcs_path = result.gcs_path
                          /\ rows[i].file_size = result.file_size
                          /\ rows[i].sha256_checksum = result.sha256_checksum
                          /\ rows[i].content_type = result.content_type
                          /\ rows[i].format = result.format
                          /\ rows[i].file_name = result.file_name
                          /\ rows[i].document_id = doc_id[p]
                          /\ rows[i].format = req[p].requested_formats[i]
                          /\ rows[i].file_size = Len(file.data)
                          /\ rows[i].sha256_checksum = HexEncode(Sha256(file.data))
                          /\ rows[i].gcs_path =
                                ObjectPath(job.tenant_id, job.project_id, job.id, file.file_name)
                          /\ \E o \in objects : o.path = rows[i].gcs_path
                /\ job.status \in {"queued", "processing", "rendering", "failed"} =>
                      rows = <<>>

\* two rows of different formats and sizes, each as its own upload returned it
C34_Witness ==
    \E p \in Workers :
        /\ doc_id[p] # 0
        /\ Len(ArtifactsIn(artifacts, doc_id[p])) = 2
        /\ ArtifactsIn(artifacts, doc_id[p])[1].format = "html"
        /\ ArtifactsIn(artifacts, doc_id[p])[2].format = "pdf"
        /\ ArtifactsIn(artifacts, doc_id[p])[1].file_size = 0
        /\ ArtifactsIn(artifacts, doc_id[p])[2].file_size = 1

\* C35: a process call whose k-th artifact insert failed has returned an error; the
\* failed insert is its last call, the job is in status uploading with no failed or
\* completed write, every requested format is uploaded and the k-1 rows inserted
\* before are still there
C35_ArtifactInsertFailure ==
    \A p \in Workers :
        "artifact_write" \in failure[p] =>
            LET k == Cardinality({i \in DOMAIN ops[p] : ops[p][i].op = "create_artifact"})
                rows == ArtifactsIn(artifacts, doc_id[p])
            IN  /\ pc[p] = "done"
                /\ ret[p].kind = "Err"
                /\ failure[p] = {"artifact_write"}
                /\ ops[p][Len(ops[p])] = [op |-> "create_artifact", ok |-> FALSE]
                /\ documents[doc_id[p]].status = "uploading"
                /\ statusLog[doc_id[p]] = <<"queued", "processing", "rendering", "uploading">>
                /\ documents[doc_id[p]].completed_at = None
                /\ documents[doc_id[p]].error_message = None
                /\ documents[doc_id[p]].generation_metadata = None
                /\ UploadsIn(uploadLog, doc_id[p]) = Len(req[p].requested_formats)
                /\ k \in 1..Len(req[p].requested_formats)
                /\ Len(rows) = k - 1
                /\ inserted[p] = k - 1
                /\ \A i \in 1..Len(rows) : rows[i].format = req[p].requested_formats[i]

\* the insert of the second of two rows failed: the first row is still there
C35_Witness ==
    \E p \in Workers :
        /\ failure[p] = {"artifact_write"}
        /\ Len(req[p].requested_formats) = 2
        /\ Len(ArtifactsIn(artifacts, doc_id[p])) = 1
        /\ documents[doc_id[p]].status = "uploading"

\* the uploads process call p has made, as positions in its calls
UploadCalls(p) == {i \in DOMAIN ops[p] : ops[p][i].op = "upload_artifact"}

\* what the storage holds after the k-th upload of process call p failed: the failed
\* upload is the last one made, the k-1 files before it are stored and still in the
\* bucket, and no artifact row was written
UploadStoppedAt(p) ==
    LET k == Cardinality(UploadCalls(p)) IN
    /\ k \in 1..Len(rendered_files[p])
    /\ \A i \in UploadCalls(p) : ops[p][i].ok <=> i # CHOOSE j \in UploadCalls(p) :
                                                       \A n \in UploadCalls(p) : n <= j
    /\ UploadsIn(uploadLog, doc_id[p]) = k - 1
    /\ \A i \in 1..(k - 1) :
          \E o \in objects :
              o.path = ObjectPath(req[p].tenant_id, req[p].project_id, doc_id[p],
                                  rendered_files[p][i].file_name)
    /\ \A i \in DOMAIN ops[p] : ops[p][i].op # "create_artifact"
    /\ ArtifactsIn(artifacts, doc_id[p]) = <<>>

\* C36 as stated: after a failed upload the uploads stopped, the objects stored before
\* stay, and the job is failed with no artifact row
C36_UploadStopsJobFailed ==
    \A p \in Workers :
        (pc[p] = "done" /\ "upload" \in failure[p]) =>
            /\ UploadStoppedAt(p)
            /\ documents[doc_id[p]].status = "failed"

\* C36: after the k-th upload failed no later file is uploaded and nothing is
\* deleted: the k-1 objects stored before stay in the bucket and the job has no
\* artifact row; the job is failed when the write of the failed status succeeded,
\* and stays in uploading with the error returned when it did not
C36_UploadStops ==
    \A p \in Workers :
        "upload" \in failure[p] =>
            /\ UploadStoppedAt(p)
            /\ pc[p] = "done" =>
                  IF failure[p] = {"upload"}
                  THEN /\ documents[doc_id[p]].status = "failed"
                       /\ ret[p].kind = "Ok"
                  ELSE /\ failure[p] = {"upload", "status_write"}
                       /\ documents[doc_id[p]].status = "uploading"
                       /\ ret[p].kind = "Err"

\* the second upload failed and the object of the first is still in the bucket of
\* the failed job
C36_Witness ==
    \E p \in Workers :
        /\ pc[p] = "done"
        /\ failure[p] = {"upload"}
        /\ Cardinality(UploadCalls(p)) = 2
        /\ documents[doc_id[p]].status = "failed"
        /\ \E o \in objects :
              o.path = ObjectPath(req[p].tenant_id, req[p].project_id, doc_id[p],
                                  rendered_files[p][1].file_name)

\* C37: after publish_response failed to serialize or publish the outcome of a
\* message, the callback is at its acknowledgment or has attempted it: it has not
\* ended without one, and a callback that is over has attempted handle, publish and
\* ack in that order
C37_AckAfterFailedPublish ==
    \A m \in Messages :
        deliveries[m].publish = Some(FALSE) =>
            IF deliveries[m].ack = None
            THEN /\ deliveries[m].state = "published"
                 /\ deliveries[m].events = <<"handle", "publish">>
            ELSE /\ deliveries[m].state = "done"
                 /\ deliveries[m].events = CallbackEvents

\* a message acknowledged although its success outcome was never delivered
C37_Witness ==
    \E m \in Messages :
        /\ deliveries[m].publish = Some(FALSE)
        /\ deliveries[m].ack = Some(TRUE)
        /\ deliveries[m].response[1].status = "success"

\* the requested formats of call c that were rendered, in request order: none when
\* the handler returned before its render loop
RenderedFormats(c) ==
    IF /\ c.data.wellformed
       /\ c.data.specification_type \in SupportedSpecificationTypes
       /\ c.generate_ok
    THEN SelectSeq(c.data.output_formats, LAMBDA f : f \in c.render_ok)
    ELSE <<>>

\* C38: handle_message returns a success response exactly when at least one requested
\* format rendered; its documents are then the formats that rendered, in request
\* order, without the ones that failed; when none rendered the response is an error
\* with a message and no documents
C38_SuccessIffRendered ==
    \A k \in DOMAIN trace :
        LET c == trace[k]
            r == c.out.response
        IN  /\ r.status \in {"success", "error"}
            /\ (r.status = "success") <=> (RenderedFormats(c) # <<>>)
            /\ r.documents = RenderedFormats(c)
            /\ (r.error = None) <=> (r.status = "success")

\* the first of two formats failed to render and the second is the only document
C38_Witness ==
    \E k \in DOMAIN trace :
        /\ trace[k].data.output_formats = <<"PDF", "HTML">>
        /\ trace[k].render_ok = {"HTML"}
        /\ trace[k].out.response.status = "success"
        /\ trace[k].out.response.documents = <<"HTML">>

\* a step on a message that is not yet delivered while the token is cancelled only
\* ends its callback, and a callback that returned at once takes no further step
SkipStep ==
    \A m \in Messages :
        /\ (cancelled /\ deliveries[m].state = "pending") =>
              \/ deliveries'[m] = deliveries[m]
              \/ deliveries'[m] = [deliveries[m] EXCEPT !.state = "skipped"]
        /\ deliveries[m].state = "skipped" => deliveries'[m] = deliveries[m]

\* C39: a message delivered to the callback after the token was cancelled is returned
\* from at once and for good: the handler is not called for it, nothing is published
\* and no acknowledgment is attempted
C39_SkippedWhenCancelled ==
    /\ [](\A m \in Messages :
            deliveries[m].state = "skipped" =>
                /\ cancelled
                /\ m \notin inFlightAtCancel
                /\ deliveries[m].data = None
                /\ deliveries[m].events = <<>>
                /\ deliveries[m].calls = <<>>
                /\ deliveries[m].response = None
                /\ deliveries[m].publish = None
                /\ deliveries[m].ack = None)
    /\ [][SkipStep]_vars

\* one message was handled, published and acknowledged before the cancellation and
\* the other was delivered after it
C39_Witness ==
    \E m, n \in Messages :
        /\ deliveries[m].state = "skipped"
        /\ deliveries[n].state = "done"
        /\ deliveries[n].ack = Some(TRUE)
        /\ loopPc = "exited"

\* process call p has returned for a request with no format whose template resolved
EmptyFormatsResolved(p) ==
    /\ pc[p] = "done"
    /\ req[p].requested_formats = <<>>
    /\ template_content[p] # None

\* what process leaves behind after a request with no format went through every stage
CompletedWithNothing(p) ==
    /\ ret[p].kind = "Ok"
    /\ ret[p].doc = documents[doc_id[p]]
    /\ ret[p].doc.status = "completed"
    /\ statusLog[doc_id[p]] = HappyPath
    /\ ret[p].doc.generation_metadata # None
    /\ ret[p].doc.generation_metadata[1].formats_generated = <<>>
    /\ ret[p].doc.generation_metadata[1].total_size_bytes = 0

\* C40 as stated: every process call for a request with no format whose template
\* resolved has ended completed, with empty metadata
C40_EmptyFormatsAlwaysCompleted ==
    \A p \in Workers : EmptyFormatsResolved(p) => CompletedWithNothing(p)

\* C40: a process call for a request with no format whose template resolved renders
\* no file, uploads nothing and inserts no artifact row; when its status writes
\* succeed it passes through rendering and uploading and ends completed with
\* metadata whose format list is empty and whose total size is zero, and when one
\* fails it returns the error
C40_EmptyFormats ==
    \A p \in Workers :
        EmptyFormatsResolved(p) =>
            /\ rendered_files[p] = <<>>
            /\ \A i \in DOMAIN ops[p] :
                  /\ ops[p][i].op \notin {"upload_artifact", "create_artifact"}
                  /\ ops[p][i].op = "render_all_formats" => ops[p][i].ok
            /\ UploadsIn(uploadLog, doc_id[p]) = 0
            /\ ArtifactsIn(artifacts, doc_id[p]) = <<>>
            /\ failure[p] \subseteq {"status_write"}
            /\ IF failure[p] = {}
               THEN /\ CompletedWithNothing(p)
                    /\ "render_all_formats" \in OpNames(p)
               ELSE /\ ret[p].kind = "Err"
                    /\ documents[doc_id[p]].status \in {"processing", "rendering", "uploading"}
                    /\ documents[doc_id[p]].generation_metadata = None

\* a request with no format and an explicit template ended completed
C40_Witness ==
    \E p \in Workers :
        /\ EmptyFormatsResolved(p)
        /\ req[p].template_id = Some(1)
        /\ documents[doc_id[p]].status = "completed"
        /\ documents[doc_id[p]].generation_metadata[1].total_size_bytes = 0
        /\ artifacts = <<>>

====
